---- MODULE Spec2Model ----
(***************************************************************************)
(* A model of the image-pipeline crate (rust-core/image-pipeline) and of   *)
(* its WebAssembly wrapper (rust-core/image-pipeline-wasm).                *)
(*                                                                         *)
(* An image (image::RgbaImage) is a record [width, height, pixels] whose   *)
(* pixels are a sequence of bytes, 4 per pixel, row-major, R,G,B,A.        *)
(* A filter of filters.rs is an operator from an image to an image, or to  *)
(* Panic when the Rust code panics (an overflow check, a failed            *)
(* allocation, an assertion of a library).                                 *)
(*                                                                         *)
(* Numbers.  f32 parameters are carried as integers in fixed point:        *)
(* brightness and contrast values and blur sigma in hundredths.           *)
(* f32 arithmetic is modelled by exact rational arithmetic followed by     *)
(* the truncation of `as u8`; a NaN is the value NaN.  u32 arithmetic      *)
(* keeps its 32-bit width: an overflow panics in a build with overflow     *)
(* checks and wraps modulo 2^32 in a build without.                        *)
(***************************************************************************)
EXTENDS Integers, Sequences, FiniteSets, TLC

VARIABLES
    build,        \* how the crate was compiled: see Builds
    pc,           \* ImagePipeline::process: "idle", "loop", "done", "panicked"
    image,        \* process: the argument `image`
    operations,   \* process: the argument `operations`
    idx,          \* process: position of the for loop in `operations` (1-based)
    result,       \* process: the local `result`
    ret,          \* process: the returned value, NoRet before a return
    executed,     \* process: the operations whose filter has been called, in call order
    kernelCalls,  \* the arguments of every create_gaussian_kernel call of the last request
    fin,          \* direct filter call: the input image
    fop,          \* direct filter call: the operation called
    fout,         \* direct filter call: what it returned
    handle,       \* the handle (ImageHandle / WasmImageProcessor), NoHandle when none
    hcall,        \* the handle surface: the last call made
    hret,         \* the handle surface: what the last call returned
    calls,        \* the handle surface: number of calls made so far
    hprev,        \* the handle surface: the handle as it was before the last call
    ppc,          \* a data-parallel call: "idle", "horizontal", "vertical", "chunks", "done", "panicked"
    pcall,        \* a data-parallel call: the function and its arguments
    bkernel,      \* blur: the local `kernel`
    hwork,        \* horizontal pass: "todo", "running" or "done" for the worker of each row y
    hrows,        \* horizontal pass: the local `rows`, <<>> where the worker has not returned
    horizontal,   \* blur: the local `horizontal`, NoImage before the horizontal pass returned
    vwork,        \* vertical pass: "todo", "running" or "done" for the worker of each row y
    vresult,      \* vertical pass: the local `result`
    slice,        \* simd.rs: the slice `pixels`, modified in place
    cwork,        \* simd.rs: for the worker of each chunk, the next offset i of its loop
    taps,         \* the samples (get_pixel calls) the workers of the two passes made
    reads,        \* simd.rs: the bytes each chunk worker read
    writes,       \* the bytes each worker wrote into the output buffer
    pret,         \* a data-parallel call: what it returned
    jentries,     \* parse_filter_json: the entries of the list the text was written from
    jtext,        \* parse_filter_json: the argument `json`
    jparsed       \* parse_filter_json: what it returned, [ok, ops]

\* the state of a data-parallel call
parVars == <<ppc, pcall, bkernel, hwork, hrows, horizontal, vwork, vresult,
             slice, cwork, taps, reads, writes, pret>>

\* the state of a parse_filter_json call
parseVars == <<jentries, jtext, jparsed>>

vars == <<build, pc, image, operations, idx, result, ret, executed, kernelCalls,
          fin, fop, fout, handle, hcall, hret, calls, hprev, parVars, parseVars>>

----------------------------------------------------------------------------
(* Bounds of the model. *)

\* images are 1..MaxW pixels wide
MaxW == 2
\* images are 1..MaxH pixels high
MaxH == 3
\* pixel patterns 0..MaxSeed
MaxSeed == 1
\* operation lists of process have at most MaxOps operations
MaxOps == 2
\* at most MaxCalls calls are made on the handle surface
MaxCalls == 2

----------------------------------------------------------------------------
(* Values. *)

\* no image: the value of an image variable that holds nothing
NoImage == [width |-> 0, height |-> 0, pixels |-> <<>>]

\* what a filter "returns" when the Rust code panics: no image at all.  It is
\* told apart from every image by its width, which no u32 equals.
Panic == [width |-> -1, height |-> -1, pixels |-> <<>>]
IsPanic(r) == r.width = -1

\* the f32 NaN as a kernel weight; every other weight is >= 0
NaN == -1

\* create_gaussian_kernel panicked: no kernel (a kernel has 2r+1 >= 1 weights)
NoKernel == <<>>

\* The builds that differ in what the code does:
\*   "debug"      overflow checks on: a u32 overflow panics
\*   "release"    overflow checks off: u32 arithmetic wraps; a 4 GiB
\*                Vec::with_capacity succeeds (64-bit, memory is reserved lazily)
\*   "release32"  overflow checks off, 32-bit address space (wasm32): a capacity
\*                above isize::MAX panics with "capacity overflow"
Builds == {"debug", "release", "release32"}

Min(a, b) == IF a <= b THEN a ELSE b
Max(a, b) == IF a >= b THEN a ELSE b

\* Ord::clamp / f32::clamp on numbers
Clamp(v, lo, hi) == IF v < lo THEN lo ELSE IF v > hi THEN hi ELSE v

\* 2^30: a quarter of the u32 modulus 2^32
Pow30 == 1073741824

----------------------------------------------------------------------------
(* image::RgbaImage *)

\* ImageBuffer::dimensions and the byte count of a w x h RGBA buffer
NumPixels(img) == img.width * img.height

\* the Vec collected from F(1), ..., F(n), in that order
Collect(n, F(_)) ==
    LET RECURSIVE Build(_)
        Build(k) == IF k <= 0 THEN <<>> ELSE Append(Build(k - 1), F(k))
    IN  Build(n)

\* ImageBuffer::get_pixel(x, y)[c]; the pixel index is y * width + x
GetPixel(img, x, y, c) == img.pixels[(y * img.width + x) * 4 + c + 1]

\* channel c (0..3) of the i-th 4-byte chunk (0-based) of a raw buffer
Chunk(raw, i, c) == raw[4 * i + c + 1]

\* ImageBuffer::new(width, height): every byte 0
NewImage(w, h) ==
    [width |-> w, height |-> h, pixels |-> Collect(w * h * 4, LAMBDA j : 0)]

\* .par_chunks(4).flat_map(F).collect(), then ImageBuffer::from_raw(width, height, _):
\* byte j of the output is channel (j-1) % 4 of F applied to chunk (j-1) \div 4
MapChunks(img, F(_, _, _)) ==
    [width  |-> img.width,
     height |-> img.height,
     pixels |-> Collect(Len(img.pixels), LAMBDA j :
                   F(img.pixels, (j - 1) \div 4, (j - 1) % 4))]

\* `x as u8` of a non-negative f32 given as the fraction num/den: truncation
\* (the callers clamp to [0, 255] first, or the value is in range)
AsU8(num, den) == Min(255, Max(0, num) \div den)

----------------------------------------------------------------------------
(* filters.rs: the per-pixel filters *)

\* f32 arithmetic.  A non-negative f32 below 512 is a pair <<int, frac>> that
\* stands for int + frac / 2^27; every f32 that the weighted sums of the
\* filters meet is a whole number of units of 2^-27.
FracUnit == 134217728

\* 2^n, for n up to 30
RECURSIVE Pow2(_)
Pow2(n) == IF n <= 0 THEN 1 ELSE 2 * Pow2(n - 1)

\* the number of bits of n: 0 for 0, else the least b with n < 2^b
RECURSIVE BitLen(_)
BitLen(n) == IF n <= 0 THEN 0 ELSE 1 + BitLen(n \div 2)

\* rounding to the 24 significant bits of an f32, ties to even.  The bits
\* dropped are the low bits of frac: with int > 0 they are BitLen(int) + 3,
\* with int = 0 those of frac above 24.
F32Round(v) ==
    LET drop == IF v[1] > 0 THEN BitLen(v[1]) + 3 ELSE Max(0, BitLen(v[2]) - 24)
        unit == Pow2(drop)
        q    == v[2] \div unit
        rem  == v[2] % unit
        up   == 2 * rem > unit \/ (2 * rem = unit /\ q % 2 = 1)
        frac == IF up THEN (q + 1) * unit ELSE q * unit
    IN  IF frac >= FracUnit THEN <<v[1] + 1, frac - FracUnit>> ELSE <<v[1], frac>>

\* an f32 constant: m * 2^-k with m its 24-bit significand
F32Const(m, k) == [m |-> m, k |-> k]

\* c * (p as f32) for a constant c and a byte p: the exact product is
\* m * p * 2^(27-k) units, computed in two halves of m, then rounded
F32Mul(c, p) ==
    LET w  == Pow2(27 - c.k)
        hi == (c.m \div 4096) * p * w
        lo == (c.m % 4096) * p * w
        x  == hi + lo \div 4096
    IN  F32Round(<<x \div 32768, (x % 32768) * 4096 + (lo % 4096)>>)

\* a + b in f32
F32Add(a, b) ==
    F32Round(<<a[1] + b[1] + (a[2] + b[2]) \div FracUnit, (a[2] + b[2]) % FracUnit>>)

\* cr * r + cg * g + cb * b, evaluated from the left as Rust does
F32Weighted(cr, cg, cb, r, g, b) ==
    F32Add(F32Add(F32Mul(cr, r), F32Mul(cg, g)), F32Mul(cb, b))

\* `v as u8` of a non-negative f32 (clamped to 255.0 or not): truncation,
\* saturating at 255
F32AsU8(v) == Min(255, v[1])

\* 0.2126, 0.7152 and 0.0722 as f32
LumaR == F32Const(14267344, 26)
LumaG == F32Const(11999065, 24)
LumaB == F32Const(9690520, 27)

\* (0.2126 * r + 0.7152 * g + 0.0722 * b) as u8
Gray(r, g, b) == F32AsU8(F32Weighted(LumaR, LumaG, LumaB, r, g, b))

\* a faulty GrayChannel, for testing the claim that rests on it: the luma is written to R and B only
GrayChannelGreenKept(raw, i, c) ==
    IF c \in {0, 2}
    THEN Gray(Chunk(raw, i, 0), Chunk(raw, i, 1), Chunk(raw, i, 2))
    ELSE Chunk(raw, i, c)

\* grayscale's closure: gray = (0.2126 r + 0.7152 g + 0.0722 b) as u8,
\* the chunk becomes [gray, gray, gray, pixel[3]]
GrayChannel(raw, i, c) ==
    IF c = 3
    THEN Chunk(raw, i, 3)
    ELSE Gray(Chunk(raw, i, 0), Chunk(raw, i, 1), Chunk(raw, i, 2))

grayscale(img) == MapChunks(img, GrayChannel)

\* i32::MAX, where `as i32` of a float saturates
I32Max == 2147483647

\* (value * 255.0) as i32, value in hundredths: truncation toward zero,
\* saturating at the ends of i32 (842150450 * 255 / 100 < 2^31)
Adjustment(value) ==
    IF value > 842150450 THEN I32Max
    ELSE IF value < -842150450 THEN -I32Max - 1
    ELSE IF value >= 0 THEN (value * 255) \div 100
    ELSE -(((-value) * 255) \div 100)

\* pixel as i32 + adjustment overflows i32 (only upward: pixel >= 0)
AddOverflows(p, adj) == adj > I32Max - p

\* ((pixel[c] as i32 + adjustment).clamp(0, 255)) as u8; a wrapped sum is negative
BrightChannel(p, adj) ==
    IF AddOverflows(p, adj) THEN 0 ELSE Clamp(p + adj, 0, 255)

brightness(img, value) ==
    LET adj == Adjustment(value)
        F(raw, i, c) == IF c = 3 THEN Chunk(raw, i, 3)
                        ELSE BrightChannel(Chunk(raw, i, c), adj)
    IN  IF build = "debug"
           /\ \E j \in 1..Len(img.pixels) :
                 (j - 1) % 4 # 3 /\ AddOverflows(img.pixels[j], adj)
        THEN Panic
        ELSE MapChunks(img, F)

\* (((pixel[c] as f32 - 128.0) * factor) + 128.0).clamp(0.0, 255.0) as u8,
\* factor in hundredths
ContrastChannel(p, factor) ==
    AsU8(Clamp((p - 128) * factor + 12800, 0, 25500), 100)

contrast(img, value) ==
    LET F(raw, i, c) == IF c = 3 THEN Chunk(raw, i, 3)
                        ELSE ContrastChannel(Chunk(raw, i, c), value)
    IN  MapChunks(img, F)

\* a faulty InvertChannel, for testing the claim that rests on it: the green byte is computed from pixel[0]
InvertChannelGreenFromRed(raw, i, c) ==
    IF c = 3 THEN Chunk(raw, i, 3)
    ELSE IF c = 1 THEN 255 - Chunk(raw, i, 0)
    ELSE 255 - Chunk(raw, i, c)

\* a faulty InvertChannel, for testing the claim that rests on it: the alpha byte is inverted too
InvertChannelAlphaToo(raw, i, c) == 255 - Chunk(raw, i, c)

\* invert's closure: [255 - pixel[0], 255 - pixel[1], 255 - pixel[2], pixel[3]]
InvertChannel(raw, i, c) ==
    IF c = 3 THEN Chunk(raw, i, 3) ELSE 255 - Chunk(raw, i, c)

invert(img) == MapChunks(img, InvertChannel)

\* the coefficients of sepia as f32, one row per output channel
SepiaCoef ==
    <<<<F32Const(13186892, 25), F32Const(12901679, 24), F32Const(12683575, 26)>>,
      <<F32Const(11710497, 25), F32Const(11509170, 24), F32Const(11274289, 26)>>,
      <<F32Const(9126806, 25), F32Const(8959033, 24), F32Const(8791261, 26)>>>>

\* sepia's closure: the three weighted sums, clamped and truncated
SepiaChannel(raw, i, c) ==
    IF c = 3 THEN Chunk(raw, i, 3)
    ELSE F32AsU8(F32Weighted(SepiaCoef[c + 1][1], SepiaCoef[c + 1][2],
                             SepiaCoef[c + 1][3],
                             Chunk(raw, i, 0), Chunk(raw, i, 1), Chunk(raw, i, 2)))

sepia(img) == MapChunks(img, SepiaChannel)

----------------------------------------------------------------------------
(* simd.rs: the in-place filters on a byte slice *)

\* a byte slice as the filter calls record it: its whole pixels in one row
RawSlice(buf) == [width |-> Len(buf) \div 4, height |-> 1, pixels |-> buf]

\* pixels.par_chunks_mut(16): the length of the chunk that holds byte j (1-based)
SimdChunkLen(buf, j) == Min(16, Len(buf) - ((j - 1) \div 16) * 16)

\* the offset in its chunk of the first byte of the 4-byte group of byte j
SimdGroup(j) == ((j - 1) % 16) - ((j - 1) % 4)

\* `if i + 3 < chunk.len()`: the group of byte j lies whole in its chunk
SimdWhole(buf, j) == SimdGroup(j) + 3 < SimdChunkLen(buf, j)

\* the bytes of a slice after f ran on every chunk: F gives the colour bytes
\* of the whole groups, every other byte is not written
SimdMap(buf, F(_, _)) ==
    Collect(Len(buf), LAMBDA j :
        IF SimdWhole(buf, j) /\ (j - 1) % 4 # 3
        THEN F(j - ((j - 1) % 4), (j - 1) % 4)
        ELSE buf[j])

\* grayscale_fast(pixels): gray = ((r + g + g + b) >> 2) as u8 in u16
grayscale_fast(buf) ==
    RawSlice(SimdMap(buf, LAMBDA i, c : (buf[i] + 2 * buf[i + 1] + buf[i + 2]) \div 4))

\* i16::MAX
I16Max == 32767

\* chunk[i] as i16 + adjustment overflows i16 (only upward: the byte is >= 0)
AddOverflows16(p, adj) == adj > I16Max - p

\* ((chunk[i] as i16 + adjustment).clamp(0, 255)) as u8; a wrapped sum is negative
BrightChannel16(p, adj) ==
    IF AddOverflows16(p, adj) THEN 0 ELSE Clamp(p + adj, 0, 255)

\* brightness_simd(pixels, adjustment): the addition panics in a build with
\* overflow checks and wraps otherwise
brightness_simd(buf, adjustment) ==
    IF build = "debug"
       /\ \E j \in 1..Len(buf) :
             /\ SimdWhole(buf, j) /\ (j - 1) % 4 # 3
             /\ AddOverflows16(buf[j], adjustment)
    THEN Panic
    ELSE RawSlice(SimdMap(buf, LAMBDA i, c : BrightChannel16(buf[i + c], adjustment)))

\* invert_simd(pixels)
invert_simd(buf) == RawSlice(SimdMap(buf, LAMBDA i, c : 255 - buf[i + c]))

----------------------------------------------------------------------------
(* filters.rs: blur, create_gaussian_kernel and the two convolution passes *)

\* weights are kept in units of 1/Scale
Scale == 1000
\* number of terms of the exponential series
ExpTerms == 30

\* Scale * (1 + t + t^2/2! + ...) for t = num/den >= 0, in integers:
\* term k is term k-1 times t / k
RECURSIVE ExpSeries(_, _, _, _, _)
ExpSeries(num, den, k, term, acc) ==
    IF k > ExpTerms \/ term = 0 THEN acc
    ELSE LET next == (term * num) \div (den * k)
         IN  ExpSeries(num, den, k + 1, next, acc + next)

RECURSIVE Gcd(_, _)
Gcd(a, b) == IF b = 0 THEN a ELSE Gcd(b, a % b)

\* Scale * exp(-num/den), num/den >= 0, den > 0; below 1/Scale past num/den = 8
ExpNeg(num, den) ==
    IF num > 8 * den THEN 0
    ELSE (Scale * Scale)
           \div ExpSeries(num \div Gcd(num, den), den \div Gcd(num, den), 1, Scale, Scale)

\* (sigma * 3.0).ceil() as i32, sigma in hundredths
Radius(sigma) == -((-(3 * sigma)) \div 100)

\* create_gaussian_kernel(radius, sigma).  The kernel is the sequence of its
\* weights before normalisation, in units of 1/Scale: the normalised weight i
\* is kernel[i] divided by the sum of the sequence.
\*   radius < 0: size = (radius * 2 + 1) as usize is above isize::MAX and
\*               vec![0.0f32; size] panics with "capacity overflow";
\*   sigma = 0:  sigma2 = 0 and the one weight is exp(-0.0 * 0.0 / 0.0) = NaN;
\*   otherwise   kernel[i] = exp(-x*x / (2 sigma^2)), x = i - radius.
create_gaussian_kernel(radius, sigma) ==
    IF radius < 0 THEN NoKernel
    ELSE Collect(2 * radius + 1, LAMBDA i :
            LET x == (i - 1) - radius
            IN  IF sigma = 0 THEN NaN
                ELSE ExpNeg(5000 * x * x, sigma * sigma))

RECURSIVE SeqSum(_, _)
SeqSum(s, n) == IF n = 0 THEN 0 ELSE s[n] + SeqSum(s, n - 1)

KernelIsNaN(kernel) == \E i \in 1..Len(kernel) : kernel[i] = NaN

\* a faulty SampleCoord, for testing the claim that rests on it: a tap beyond
\* an edge wraps around to the opposite edge
SampleCoordWrapping(pos, i, radius, n) == (pos + (i - 1) - radius) % n

\* the coordinate read for tap i (1-based) at position pos of an axis of
\* length n: (pos as i32 + i as i32 - radius).clamp(0, n as i32 - 1)
SampleCoord(pos, i, radius, n) == Clamp(pos + (i - 1) - radius, 0, n - 1)

\* sum over the taps 1..n of sample * weight, horizontally
RECURSIVE TapSumH(_, _, _, _, _, _)
TapSumH(img, kernel, x, y, c, n) ==
    IF n = 0 THEN 0
    ELSE GetPixel(img, SampleCoord(x, n, Len(kernel) \div 2, img.width), y, c)
           * kernel[n]
         + TapSumH(img, kernel, x, y, c, n - 1)

\* sum over the taps 1..n of sample * weight, vertically
RECURSIVE TapSumV(_, _, _, _, _, _)
TapSumV(img, kernel, x, y, c, n) ==
    IF n = 0 THEN 0
    ELSE GetPixel(img, x, SampleCoord(y, n, Len(kernel) \div 2, img.height), c)
           * kernel[n]
         + TapSumV(img, kernel, x, y, c, n - 1)

\* apply_convolution_1d_horizontal: one row per y, the rows flattened in order.
\* A NaN sum stays NaN through clamp and `as u8` makes it 0.
apply_convolution_1d_horizontal(img, kernel) ==
    LET total == IF KernelIsNaN(kernel) THEN 1 ELSE SeqSum(kernel, Len(kernel))
    IN  [width  |-> img.width,
         height |-> img.height,
         pixels |-> Collect(img.width * img.height * 4, LAMBDA j :
                       LET p == (j - 1) \div 4
                           x == p % img.width
                           y == p \div img.width
                       IN  IF KernelIsNaN(kernel) THEN 0
                           ELSE AsU8(TapSumH(img, kernel, x, y, (j - 1) % 4,
                                             Len(kernel)), total))]

\* apply_convolution_1d_vertical: result.par_chunks_mut((width * 4) as usize),
\* which asserts a chunk size other than 0; row y of the result is chunk y
apply_convolution_1d_vertical(img, kernel) ==
    LET total == IF KernelIsNaN(kernel) THEN 1 ELSE SeqSum(kernel, Len(kernel))
    IN  IF img.width = 0 THEN Panic
        ELSE [width  |-> img.width,
              height |-> img.height,
              pixels |-> Collect(img.width * img.height * 4, LAMBDA j :
                            LET p == (j - 1) \div 4
                                x == p % img.width
                                y == p \div img.width
                            IN  IF KernelIsNaN(kernel) THEN 0
                                ELSE AsU8(TapSumV(img, kernel, x, y, (j - 1) % 4,
                                                  Len(kernel)), total))]

\* blur(image, sigma): the kernel, the horizontal pass, then the vertical pass
\* on the horizontal pass's output
blur(img, sigma) ==
    LET kernel == create_gaussian_kernel(Radius(sigma), sigma)
    IN  IF kernel = NoKernel THEN Panic
        ELSE apply_convolution_1d_vertical(
                 apply_convolution_1d_horizontal(img, kernel), kernel)

\* the calls of create_gaussian_kernel that blur(_, sigma) makes: <<radius, sigma>>
BlurKernelCalls(sigma) == {<<Radius(sigma), sigma>>}

\* sharpen's closure: orig + 1.5 * (orig - blur), clamped and truncated;
\* alpha is orig[3]
SharpenChannel(o, b) == AsU8(Clamp(5 * o - 3 * b, 0, 510), 2)

\* sharpen(image): blur(image, 1.0), then the zip of the two buffers
sharpen(img) ==
    LET blurred == blur(img, 100)
    IN  IF IsPanic(blurred) THEN Panic
        ELSE [width  |-> img.width,
              height |-> img.height,
              pixels |-> Collect(Len(img.pixels), LAMBDA j :
                            IF (j - 1) % 4 = 3 THEN img.pixels[j]
                            ELSE SharpenChannel(img.pixels[j], blurred.pixels[j]))]

----------------------------------------------------------------------------
(* filters.rs: edge_detect *)

\* sobel_x and sobel_y, indexed [ky + 1][kx + 1]
SobelX == << <<-1, 0, 1>>, <<-2, 0, 2>>, <<-1, 0, 1>> >>
SobelY == << <<-1, -2, -1>>, <<0, 0, 0>>, <<1, 2, 1>> >>

\* the sum, over the first n of the 9 taps (ky, kx) in loop order, of
\* gray.get_pixel(x + kx - 1, y + ky - 1)[0] * K[ky][kx]
RECURSIVE SobelSum(_, _, _, _, _)
SobelSum(gray, K, x, y, n) ==
    IF n = 0 THEN 0
    ELSE LET ky == (n - 1) \div 3
             kx == (n - 1) % 3
         IN  GetPixel(gray, x + kx - 1, y + ky - 1, 0) * K[ky + 1][kx + 1]
             + SobelSum(gray, K, x, y, n - 1)

\* ((v as f32).sqrt().clamp(0.0, 255.0)) as u8 for an integer v >= 0
SqrtClampU8(v) ==
    CHOOSE m \in 0..255 : m * m <= v /\ (m = 255 \/ (m + 1) * (m + 1) > v)

\* magnitude at (x, y) of the grayscale image
Magnitude(gray, x, y) ==
    LET gx == SobelSum(gray, SobelX, x, y, 9)
        gy == SobelSum(gray, SobelY, x, y, 9)
    IN  SqrtClampU8(gx * gx + gy * gy)

\* the `rows` of edge_detect: row y - 1 (0-based) holds, for x in 1..width-1,
\* the chunk [magnitude, magnitude, magnitude, 255]; here rows[y][k], 1-based
EdgeRows(gray) ==
    Collect(gray.height - 2, LAMBDA yy :
       Collect((gray.width - 2) * 4, LAMBDA k :
          IF (k - 1) % 4 = 3 THEN 255
          ELSE Magnitude(gray, 1 + (k - 1) \div 4, yy)))

\* a faulty EdgeAssemble, for testing the claim that rests on it: put_pixel(x, y, chunk)
EdgeAssembleNoOffset(w, h, rows) ==
    [width  |-> w,
     height |-> h,
     pixels |-> Collect(w * h * 4, LAMBDA j :
                   LET p == (j - 1) \div 4
                       X == p % w
                       Y == p \div w
                   IN  IF Y < Len(rows) /\ X < Len(rows[Y + 1]) \div 4
                       THEN rows[Y + 1][X * 4 + ((j - 1) % 4) + 1]
                       ELSE 0)]

\* ImageBuffer::new(width, height), then put_pixel(x + 1, y + 1, chunk) for
\* every (y, row) of rows.iter().enumerate() and (x, chunk) of row.chunks(4)
EdgeAssemble(w, h, rows) ==
    [width  |-> w,
     height |-> h,
     pixels |-> Collect(w * h * 4, LAMBDA j :
                   LET p == (j - 1) \div 4
                       X == p % w
                       Y == p \div w
                   IN  IF /\ Y >= 1 /\ Y <= Len(rows)
                          /\ X >= 1 /\ X <= Len(rows[Y]) \div 4
                       THEN rows[Y][(X - 1) * 4 + ((j - 1) % 4) + 1]
                       ELSE 0)]

\* edge_detect(image).
\*   height = 0: `height - 1` underflows; with overflow checks it panics, without
\*     the row range is 1..2^32-1 and the call ends in an out-of-bounds
\*     get_pixel or in memory exhaustion: no build returns;
\*   height <= 2: the row range 1..height-1 is empty, the closure never runs;
\*   height >= 3, width = 0: `width - 2` underflows or get_pixel(0, 0) is out of
\*     bounds: a panic in every build;
\*   height >= 3, width = 1: `width - 2` underflows: a panic with overflow
\*     checks; without, Vec::with_capacity(4294967292) panics in a 32-bit
\*     address space and reserves in a 64-bit one, and the rows are empty;
\*   otherwise the interior pixels are convolved.
edge_detect(img) ==
    LET gray == grayscale(img)
        w == gray.width
        h == gray.height
    IN  IF h = 0 THEN Panic
        ELSE IF h <= 2 THEN NewImage(w, h)
        ELSE IF w = 0 THEN Panic
        ELSE IF w = 1
             THEN IF build = "release"
                  THEN EdgeAssemble(w, h, Collect(h - 2, LAMBDA yy : <<>>))
                  ELSE Panic
        ELSE EdgeAssemble(w, h, EdgeRows(gray))

----------------------------------------------------------------------------
(* filters.rs: resize, a call of image::imageops::resize(_, w, h, Lanczos3) *)

\* The resampling is the image crate's.  What the crate fixes and the model
\* keeps: the output is exactly new_width x new_height (new_width * new_height
\* * 4 bytes), an empty source gives ImageBuffer::new, equal dimensions give a
\* copy, and no dimension is rejected: a zero dimension gives an empty image.
\* The resampled bytes themselves stand for the Lanczos3 result and are taken
\* from the nearest source pixel.
resize(img, new_width, new_height) ==
    IF img.width = 0 \/ img.height = 0 THEN NewImage(new_width, new_height)
    ELSE IF new_width = img.width /\ new_height = img.height THEN img
    ELSE [width  |-> new_width,
          height |-> new_height,
          pixels |-> Collect(new_width * new_height * 4, LAMBDA j :
                        LET p == (j - 1) \div 4
                            x == ((p % new_width) * img.width) \div new_width
                            y == ((p \div new_width) * img.height) \div new_height
                        IN  GetPixel(img, x, y, (j - 1) % 4))]

----------------------------------------------------------------------------
(* lib.rs: FilterOperation *)

\* A FilterOperation is [type, a, b]: a is the f32 of Brightness, Contrast and
\* Blur (in hundredths) or the width of Resize, b the height of Resize.
Op(type, a, b) == [type |-> type, a |-> a, b |-> b]

Grayscale  == Op("Grayscale", 0, 0)
Sharpen    == Op("Sharpen", 0, 0)
EdgeDetect == Op("EdgeDetect", 0, 0)
Invert     == Op("Invert", 0, 0)
Sepia      == Op("Sepia", 0, 0)
Brightness(value) == Op("Brightness", value, 0)
Contrast(value)   == Op("Contrast", value, 0)
Blur(sigma)       == Op("Blur", sigma, 0)
Resize(w, h)      == Op("Resize", w, h)

\* the match of process: the filter each operation is dispatched to
ApplyOp(img, op) ==
    CASE op.type = "Grayscale"  -> grayscale(img)
      [] op.type = "Brightness" -> brightness(img, op.a)
      [] op.type = "Contrast"   -> contrast(img, op.a)
      [] op.type = "Blur"       -> blur(img, op.a)
      [] op.type = "Sharpen"    -> sharpen(img)
      [] op.type = "EdgeDetect" -> edge_detect(img)
      [] op.type = "Resize"     -> resize(img, op.a, op.b)
      [] op.type = "Invert"     -> invert(img)
      [] op.type = "Sepia"      -> sepia(img)

\* the create_gaussian_kernel calls made while the operation's filter runs:
\* blur calls it once with (ceil(3 sigma), sigma), sharpen calls blur(_, 1.0)
KernelCallsOf(op) ==
    CASE op.type = "Blur"    -> BlurKernelCalls(op.a)
      [] op.type = "Sharpen" -> BlurKernelCalls(100)
      [] OTHER               -> {}

----------------------------------------------------------------------------
(* Inputs *)

\* byte c of pixel (x, y) of pattern k.  Pattern 0 is the gradient of the
\* crate's create_test_image with opaque alpha; the others shift the colours
\* and vary the alpha.
PatternByte(x, y, c, k) ==
    CASE c = 0 -> (x * 85 + k * 201) % 256
      [] c = 1 -> (y * 85 + k * 77) % 256
      [] c = 2 -> ((x + y) * 85 + k * 150) % 256
      [] OTHER -> (255 - k * (x + y + 1) * 40) % 256

\* ImageBuffer::from_fn(w, h, pattern k)
PatternImage(w, h, k) ==
    [width  |-> w,
     height |-> h,
     pixels |-> Collect(w * h * 4, LAMBDA j :
                   LET p == (j - 1) \div 4
                   IN  PatternByte(p % w, p \div w, (j - 1) % 4, k))]

\* the input images of the direct filter calls: every size up to MaxW x MaxH
Images ==
    {PatternImage(w, h, k) : w \in 1..MaxW, h \in 1..MaxH, k \in 0..MaxSeed}

\* the input images of process: one pixel and one column, each with the first
\* and the last pattern, and the largest size with the last pattern
PipelineImages ==
    {PatternImage(d[1], d[2], k) : d \in {<<1, 1>>, <<1, MaxH>>}, k \in {0, MaxSeed}}
        \cup {PatternImage(MaxW, MaxH, MaxSeed)}

\* channel values of the one-pixel images the filters are also called on
ChannelVals == {0, 1, 127, 128, 255}

OnePixelImages ==
    {[width |-> 1, height |-> 1, pixels |-> <<r, g, b, a>>] :
        r \in ChannelVals, g \in ChannelVals, b \in ChannelVals, a \in {0, 128, 255}}

\* images with an empty axis, as Resize(0, h) and Resize(w, 0) return them
EmptyImages == {NewImage(0, 2), NewImage(2, 0), NewImage(0, 3)}

\* the input images of the direct filter calls
FilterImages == Images \cup OnePixelImages \cup EmptyImages

\* f32 arguments, in hundredths
\* (9000000.0 * 255.0 is above i32::MAX)
BrightnessVals == {-50, 0, 20, 900000000}
ContrastVals   == {0, 100, 120}
SigmaVals      == {-100, -10, 0, 10, 100}
ResizeDims     == {<<0, 2>>, <<2, 0>>, <<1, 3>>, <<2, 1>>}

\* the operations process is called with
PipelineOps ==
    {Grayscale, Sharpen, EdgeDetect, Invert, Sepia, Brightness(20), Contrast(120),
     Blur(0), Resize(0, 2), Resize(1, 3)}

OpLists == UNION {[1..n -> PipelineOps] : n \in 0..MaxOps}

----------------------------------------------------------------------------
(* lib.rs: ImagePipeline::process *)

\* a returned value: kind is "none" (nothing returned yet), "Ok" (value is the
\* image), "Err" or "panic" (the call unwound)
Returned(kind, value) == [kind |-> kind, value |-> value]
NoRet == Returned("none", NoImage)

\* a faulty CloneImage, for testing the claim that rests on it: the fold starts from a blank buffer of the same size
CloneBlank(img) == NewImage(img.width, img.height)

\* let mut result = image.clone()
CloneImage(img) == img

\* a faulty NextOp, for testing the claim that rests on it: the list is walked from its end
NextOpReversed(ops, i) == ops[Len(ops) - i + 1]

\* for op in operations: the i-th operation the loop visits
NextOp(ops, i) == ops[i]

\* process(&self, image, operations) is entered
ProcessCall ==
    /\ pc = "idle"
    /\ \E img \in PipelineImages, ops \in OpLists :
          /\ image' = img
          /\ operations' = ops
          /\ result' = CloneImage(img)
    /\ idx' = 1
    /\ pc' = "loop"
    /\ ret' = NoRet
    /\ executed' = <<>>
    /\ kernelCalls' = {}
    /\ UNCHANGED <<build, fin, fop, fout, handle, hcall, hret, calls, hprev, parVars,
                   parseVars>>

\* one iteration of the loop: result = match op { ... }.  A filter that
\* panics unwinds process: nothing is returned and the loop goes no further.
ProcessStep ==
    /\ pc = "loop"
    /\ idx <= Len(operations)
    /\ \E op \in {NextOp(operations, idx)} :
       \E r \in {ApplyOp(result, op)} :
          /\ executed' = Append(executed, op)
          /\ kernelCalls' = kernelCalls \cup KernelCallsOf(op)
          /\ IF IsPanic(r)
             THEN /\ pc' = "panicked"
                  /\ ret' = Returned("panic", NoImage)
                  /\ UNCHANGED <<idx, result>>
             ELSE /\ result' = r
                  /\ idx' = idx + 1
                  /\ UNCHANGED <<pc, ret>>
    /\ UNCHANGED <<build, image, operations, fin, fop, fout, handle, hcall, hret, calls,
                   hprev, parVars,
                   parseVars>>

\* the loop is over: Ok(result)
ProcessReturn ==
    /\ pc = "loop"
    /\ idx > Len(operations)
    /\ ret' = Returned("Ok", result)
    /\ pc' = "done"
    /\ UNCHANGED <<build, image, operations, idx, result, executed, kernelCalls,
                   fin, fop, fout, handle, hcall, hret, calls, hprev, parVars,
                   parseVars>>

\* process as a function of its arguments: the fold of ApplyOp over the list,
\* Panic when a filter panics
RECURSIVE ProcessFn(_, _)
ProcessFn(img, ops) ==
    IF ops = <<>> THEN img
    ELSE LET before == ProcessFn(img, SubSeq(ops, 1, Len(ops) - 1))
         IN  IF IsPanic(before) THEN Panic
             ELSE ApplyOp(before, ops[Len(ops)])

----------------------------------------------------------------------------
(* filters.rs: the public filter functions, called directly *)

\* the call filter(&img, ...) is made and gives r: the image, or a panic.
\* Each Call action makes the one call of a behaviour.
FilterCall(img, op, r) ==
    /\ fin' = img
    /\ fop' = op
    /\ fout' = IF IsPanic(r) THEN Returned("panic", NoImage) ELSE Returned("Ok", r)
    /\ kernelCalls' = KernelCallsOf(op)
    /\ UNCHANGED <<build, pc, image, operations, idx, result, ret, executed,
                   handle, hcall, hret, calls, hprev, parVars,
                   parseVars>>

CallGrayscale ==
    /\ fout.kind = "none"
    /\ \E img \in FilterImages : \E r \in {grayscale(img)} :
          FilterCall(img, Grayscale, r)

CallBrightness ==
    /\ fout.kind = "none"
    /\ \E img \in FilterImages, v \in BrightnessVals : \E r \in {brightness(img, v)} :
          FilterCall(img, Brightness(v), r)

CallContrast ==
    /\ fout.kind = "none"
    /\ \E img \in FilterImages, v \in ContrastVals : \E r \in {contrast(img, v)} :
          FilterCall(img, Contrast(v), r)

CallBlur ==
    /\ fout.kind = "none"
    /\ \E img \in FilterImages, sg \in SigmaVals : \E r \in {blur(img, sg)} :
          FilterCall(img, Blur(sg), r)

CallSharpen ==
    /\ fout.kind = "none"
    /\ \E img \in FilterImages : \E r \in {sharpen(img)} :
          FilterCall(img, Sharpen, r)

\* images with interior pixels, for edge_detect
EdgeImages ==
    {PatternImage(d[1], d[2], k) :
        d \in {<<MaxW + 1, MaxH>>, <<MaxW + 2, MaxH + 1>>}, k \in 0..MaxSeed}

CallEdgeDetect ==
    /\ fout.kind = "none"
    /\ \E img \in FilterImages \cup EdgeImages : \E r \in {edge_detect(img)} :
          FilterCall(img, EdgeDetect, r)

CallResize ==
    /\ fout.kind = "none"
    /\ \E img \in FilterImages, d \in ResizeDims : \E r \in {resize(img, d[1], d[2])} :
          FilterCall(img, Resize(d[1], d[2]), r)

CallInvert ==
    /\ fout.kind = "none"
    /\ \E img \in FilterImages : \E r \in {invert(img)} :
          FilterCall(img, Invert, r)

CallSepia ==
    /\ fout.kind = "none"
    /\ \E img \in FilterImages : \E r \in {sepia(img)} :
          FilterCall(img, Sepia, r)

\* the slices the in-place filters are called on: the buffers of the images
\* (one or two chunks of 16), the slices of the tests of simd.rs, and slices
\* that end inside a pixel
SimdSlices ==
    {img.pixels : img \in Images}
      \cup {<<>>, <<255, 0, 0, 255, 0, 255, 0, 255, 0, 0, 255, 255>>,
            <<100, 100, 100, 255>>, <<100, 150, 200, 255>>,
            <<9, 8, 7, 6, 5, 4>>, <<1, 2, 3>>}

\* adjustment: i16
SimdAdjustments == {-32768, -50, 0, 50, 32767}

CallGrayscaleFast ==
    /\ fout.kind = "none"
    /\ \E buf \in SimdSlices : \E r \in {grayscale_fast(buf)} :
          FilterCall(RawSlice(buf), Op("grayscale_fast", 0, 0), r)

CallBrightnessSimd ==
    /\ fout.kind = "none"
    /\ \E buf \in SimdSlices : \E adj \in SimdAdjustments :
          \E r \in {brightness_simd(buf, adj)} :
             FilterCall(RawSlice(buf), Op("brightness_simd", adj, 0), r)

CallInvertSimd ==
    /\ fout.kind = "none"
    /\ \E buf \in SimdSlices : \E r \in {invert_simd(buf)} :
          FilterCall(RawSlice(buf), Op("invert_simd", 0, 0), r)

----------------------------------------------------------------------------
(* image-pipeline-wasm/src/lib.rs: the text of a filter list.  A &str is a  *)
(* string; str methods are the operators below.                             *)

\* s[i..j] in byte offsets (0-based, j exclusive)
Slice(s, i, j) == SubSeq(s, i + 1, j)

\* the character at byte offset i
CharAt(s, i) == SubSeq(s, i + 1, i + 1)

\* char::is_whitespace, for the characters the texts of the model use
IsSpace(c) == c = " "

RECURSIVE TrimStart(_)
TrimStart(s) ==
    IF Len(s) > 0 /\ IsSpace(CharAt(s, 0)) THEN TrimStart(Slice(s, 1, Len(s))) ELSE s

RECURSIVE TrimEnd(_)
TrimEnd(s) ==
    IF Len(s) > 0 /\ IsSpace(CharAt(s, Len(s) - 1))
    THEN TrimEnd(Slice(s, 0, Len(s) - 1)) ELSE s

\* str::trim
Trim(s) == TrimEnd(TrimStart(s))

\* str::trim_start_matches(c): every leading c is removed
RECURSIVE TrimStartMatches(_, _)
TrimStartMatches(s, c) ==
    IF Len(s) > 0 /\ CharAt(s, 0) = c
    THEN TrimStartMatches(Slice(s, 1, Len(s)), c) ELSE s

\* str::trim_end_matches(c): every trailing c is removed
RECURSIVE TrimEndMatches(_, _)
TrimEndMatches(s, c) ==
    IF Len(s) > 0 /\ CharAt(s, Len(s) - 1) = c
    THEN TrimEndMatches(Slice(s, 0, Len(s) - 1), c) ELSE s

StartsWith(s, p) == Len(s) >= Len(p) /\ Slice(s, 0, Len(p)) = p
EndsWith(s, p) == Len(s) >= Len(p) /\ Slice(s, Len(s) - Len(p), Len(s)) = p

\* the offsets at which p occurs in s
Occurrences(s, p) == {i \in 0..(Len(s) - Len(p)) : Slice(s, i, i + Len(p)) = p}

\* str::contains
Contains(s, p) == Occurrences(s, p) # {}

\* str::find(&str): the offset of the first occurrence, -1 for None
Find(s, p) ==
    IF Occurrences(s, p) = {} THEN -1
    ELSE CHOOSE i \in Occurrences(s, p) : \A j \in Occurrences(s, p) : i <= j

\* str::split(sep), collected: the pieces between the occurrences of sep,
\* found from the left, without overlap
RECURSIVE Split(_, _)
Split(s, sep) ==
    IF Find(s, sep) = -1 THEN <<s>>
    ELSE <<Slice(s, 0, Find(s, sep))>>
           \o Split(Slice(s, Find(s, sep) + Len(sep), Len(s)), sep)

DigitChars == <<"0", "1", "2", "3", "4", "5", "6", "7", "8", "9">>
IsDigit(c) == \E d \in 1..10 : DigitChars[d] = c
DigitVal(c) == (CHOOSE d \in 1..10 : DigitChars[d] = c) - 1

\* the value of a string of digits ("" is 0)
RECURSIVE DigitsVal(_)
DigitsVal(s) ==
    IF Len(s) = 0 THEN 0
    ELSE 10 * DigitsVal(Slice(s, 0, Len(s) - 1)) + DigitVal(CharAt(s, Len(s) - 1))

\* the end of the number in extract_f32_value: the offset of the first
\* character that is not numeric, '.' or '-', or the length
NumberEnd(s) ==
    LET stops == {i \in 0..(Len(s) - 1) :
                     ~IsDigit(CharAt(s, i)) /\ CharAt(s, i) \notin {".", "-"}}
    IN  IF stops = {} THEN Len(s)
        ELSE CHOOSE i \in stops : \A j \in stops : i <= j

\* an Option<f32>: the f32 in hundredths
None == [some |-> FALSE, val |-> 0]
Some(v) == [some |-> TRUE, val |-> v]

\* str::parse::<f32>().ok() for a string of digits, '.' and '-': an optional
\* leading '-', digits with at most one '.', and at least one digit.  The
\* value is in hundredths (the texts of the model have at most two decimals).
ParseF32(s) ==
    LET neg  == StartsWith(s, "-")
        body == IF neg THEN Slice(s, 1, Len(s)) ELSE s
        dot  == Find(body, ".")
        int  == IF dot = -1 THEN body ELSE Slice(body, 0, dot)
        frac == IF dot = -1 THEN "" ELSE Slice(body, dot + 1, Len(body))
        f2   == Slice(frac \o "00", 0, 2)
        mag  == 100 * DigitsVal(int) + DigitsVal(f2)
    IN  IF /\ \A i \in 0..(Len(int) - 1) : IsDigit(CharAt(int, i))
           /\ \A i \in 0..(Len(frac) - 1) : IsDigit(CharAt(frac, i))
           /\ Len(int) + Len(frac) > 0
        THEN Some(IF neg THEN -mag ELSE mag)
        ELSE None

\* "\"" + key + "\":"
KeyPattern(key) == "\"" \o key \o "\":"

\* extract_f32_value(s, key)
extract_f32_value(s, key) ==
    LET at   == Find(s, KeyPattern(key))
        rest == Trim(Slice(s, at + Len(KeyPattern(key)), Len(s)))
    IN  IF at = -1 THEN None
        ELSE ParseF32(Trim(Slice(rest, 0, NumberEnd(rest))))

\* extract_u32_value(s, key): `v as u32` truncates and saturates at 0
extract_u32_value(s, key) ==
    LET v == extract_f32_value(s, key)
    IN  IF ~v.some THEN None
        ELSE Some(IF v.val < 0 THEN 0 ELSE v.val \div 100)

\* an Option<FilterOperation>
NoOp == [some |-> FALSE, op |-> Op("none", 0, 0)]
SomeOp(op) == [some |-> TRUE, op |-> op]

\* parse_single_filter(s): the first name of the chain that s contains
parse_single_filter(s) ==
    IF Contains(s, "\"grayscale\"") THEN SomeOp(Grayscale)
    ELSE IF Contains(s, "\"invert\"") THEN SomeOp(Invert)
    ELSE IF Contains(s, "\"sepia\"") THEN SomeOp(Sepia)
    ELSE IF Contains(s, "\"sharpen\"") THEN SomeOp(Sharpen)
    ELSE IF Contains(s, "\"edge_detect\"") THEN SomeOp(EdgeDetect)
    ELSE IF Contains(s, "\"brightness\"")
         THEN IF extract_f32_value(s, "value").some
              THEN SomeOp(Brightness(extract_f32_value(s, "value").val)) ELSE NoOp
    ELSE IF Contains(s, "\"contrast\"")
         THEN IF extract_f32_value(s, "value").some
              THEN SomeOp(Contrast(extract_f32_value(s, "value").val)) ELSE NoOp
    ELSE IF Contains(s, "\"blur\"")
         THEN IF extract_f32_value(s, "sigma").some
              THEN SomeOp(Blur(extract_f32_value(s, "sigma").val))
              ELSE IF extract_f32_value(s, "value").some
              THEN SomeOp(Blur(extract_f32_value(s, "value").val)) ELSE NoOp
    ELSE IF Contains(s, "\"resize\"")
         THEN IF extract_u32_value(s, "width").some /\ extract_u32_value(s, "height").some
              THEN SomeOp(Resize(extract_u32_value(s, "width").val,
                                 extract_u32_value(s, "height").val))
              ELSE NoOp
    ELSE NoOp

\* the loop of parse_filter_json over the first n parts: each part is
\* trimmed of spaces and braces, an empty part is skipped, and the operation
\* of a part that parse_single_filter recognises is pushed
RECURSIVE ParseParts(_, _)
ParseParts(parts, n) ==
    IF n = 0 THEN <<>>
    ELSE LET part == Trim(TrimEndMatches(TrimStartMatches(Trim(parts[n]), "{"), "}"))
             o    == parse_single_filter(part)
         IN  IF part = "" \/ ~o.some THEN ParseParts(parts, n - 1)
             ELSE Append(ParseParts(parts, n - 1), o.op)

\* parse_filter_json(json): [ok, ops]; ok is FALSE for
\* Err("Invalid JSON: expected array")
parse_filter_json(json) ==
    LET t == Trim(json)
    IN  IF ~StartsWith(t, "[") \/ ~EndsWith(t, "]")
        THEN [ok |-> FALSE, ops |-> <<>>]
        ELSE [ok  |-> TRUE,
              ops |-> ParseParts(Split(Slice(t, 1, Len(t) - 1), "},"),
                                 Len(Split(Slice(t, 1, Len(t) - 1), "},")))]

----------------------------------------------------------------------------
(* The handles: WasmImageProcessor (image-pipeline-wasm/src/lib.rs) and     *)
(* ImageHandle (image-pipeline/src/ffi.rs).  Both own data, width, height.  *)

NoHandle == [state |-> "none", api |-> "none", data |-> <<>>, width |-> 0, height |-> 0]

Live(api, data, w, h) ==
    [state |-> "live", api |-> api, data |-> data, width |-> w, height |-> h]

\* (a * b) mod 2^30, by repeated addition so that no intermediate value
\* leaves the range of the checker's integers
RECURSIVE MulMod(_, _)
MulMod(a, b) == IF b = 0 THEN 0 ELSE (MulMod(a, b - 1) + (a % Pow30)) % Pow30

\* width * height * 4 does not fit in a u32: width * height >= 2^30
Overflows(w, h) == w # 0 /\ h # 0 /\ h > (Pow30 - 1) \div w

\* a quarter of the u32 value of width * height * 4 in a build without
\* overflow checks: (width * height * 4) mod 2^32 = 4 * ((width * height) mod 2^30)
WrappedQuarter(w, h) == MulMod(w, h)

\* data.len() == expected_size, for the wrapped u32 expected_size
LenIsWrappedSize(data, w, h) ==
    Len(data) % 4 = 0 /\ Len(data) \div 4 = WrappedQuarter(w, h)

\* n == width * height * 4 over the integers
LenIsExactSize(n, w, h) ==
    /\ n % 4 = 0
    /\ IF w = 0 \/ h = 0 THEN n = 0 ELSE (n \div 4) % w = 0 /\ (n \div 4) \div w = h

\* ImageBuffer::from_raw(width, height, buf) is Some: width * height * 4,
\* computed with checked arithmetic, is at most buf.len()
FromRawFits(w, h, n) == ~Overflows(w, h) /\ w * h <= n \div 4

\* WasmImageProcessor::to_image and the from_raw of ffi.rs: Some(image) or None
to_image(h) ==
    IF FromRawFits(h.width, h.height, Len(h.data))
    THEN [some |-> TRUE,
          img  |-> [width |-> h.width, height |-> h.height, pixels |-> h.data]]
    ELSE [some |-> FALSE, img |-> NoImage]

\* what a caller passes as raw bytes
HandleBuffers ==
    {<<>>} \cup {PatternImage(w, h, 1).pixels : w \in {1, MaxW}, h \in {1, MaxH}}

\* what a caller passes as width and height: the small sizes, and two widths
\* whose byte count does not fit in 32 bits
HandleDims ==
    ({0, 1, MaxW} \X {0, 1, MaxH}) \cup {<<Pow30, 4>>, <<Pow30 + 1, 1>>}

\* the filter-list texts a caller passes to apply_filters
FilterTexts ==
    {"[]",
     "grayscale",
     "[{\"type\": \"grayscale\"}, {\"type\": \"brightness\", \"value\": 0.2}]",
     "[{\"type\": \"blur\", \"sigma\": 0}, {\"type\": \"invert\"}]",
     "[{\"type\": \"resize\", \"width\": 0, \"height\": 2}]",
     "[{\"type\": \"resize\", \"width\": 1, \"height\": 3}, {\"type\": \"edge_detect\"}]",
     "[{\"type\": \"emboss\"}, {\"type\": \"sepia\"}]"}

\* a call as the caller made it: the function, and its arguments: the number
\* of bytes supplied, the bytes themselves, the width and the height (a
\* construction, resize), the filter and its value, the filter-list text
Call(fn, bytes, w, h) ==
    [fn |-> fn, bytes |-> bytes, width |-> w, height |-> h,
     data |-> <<>>, op |-> Op("none", 0, 0), text |-> ""]
NoCall == Call("none", 0, 0, 0)

\* a construction from the bytes data
CallData(fn, data, w, h) == [Call(fn, Len(data), w, h) EXCEPT !.data = data]

\* a filter function called for op
CallOp(op) == [Call(op.type, 0, 0, 0) EXCEPT !.op = op]

\* apply_filters called with the text json
CallText(json) == [Call("apply_filters", 0, 0, 0) EXCEPT !.text = json]

\* one more call on the handle: what was called and what it returned, and the
\* handle the call found
Called(c, r) == calls' = calls + 1 /\ hcall' = c /\ hret' = r /\ hprev' = handle

HandleFrame ==
    UNCHANGED <<build, pc, image, operations, idx, result, ret, executed,
                kernelCalls, fin, fop, fout, parVars, parseVars>>

\* a faulty WasmConstruct, for testing the claim that rests on it: width and
\* height are assigned before the length is checked
WasmConstructAssignsFirst(fn, data, w, h) ==
    \E c \in {CallData(fn, data, w, h)} :
       IF build = "debug" /\ Overflows(w, h)
       THEN Called(c, "panic") /\ UNCHANGED handle
       ELSE IF ~LenIsWrappedSize(data, w, h)
       THEN Called(c, "err") /\ handle' = [handle EXCEPT !.width = w, !.height = h]
       ELSE Called(c, "ok") /\ handle' = Live("wasm", data, w, h)

\* the body shared by WasmImageProcessor::new and ::reset: the expected size
\* is computed in u32, which panics on overflow in a debug build and wraps
\* otherwise; a different length is Err and leaves the handle as it was
WasmConstruct(fn, data, w, h) ==
    \E c \in {CallData(fn, data, w, h)} :
       IF build = "debug" /\ Overflows(w, h)
       THEN Called(c, "panic") /\ UNCHANGED handle
       ELSE IF ~LenIsWrappedSize(data, w, h)
       THEN Called(c, "err") /\ UNCHANGED handle
       ELSE Called(c, "ok") /\ handle' = Live("wasm", data, w, h)

\* WasmImageProcessor::new(data, width, height)
WasmNew ==
    /\ calls < MaxCalls
    /\ handle.state = "none"
    /\ \E data \in HandleBuffers : \E d \in HandleDims :
          WasmConstruct("new", data, d[1], d[2])
    /\ HandleFrame

\* WasmImageProcessor::reset(data, width, height)
WasmReset ==
    /\ calls < MaxCalls
    /\ handle.state = "live" /\ handle.api = "wasm"
    /\ \E data \in HandleBuffers : \E d \in HandleDims :
          WasmConstruct("reset", data, d[1], d[2])
    /\ HandleFrame

\* WasmImageProcessor::apply_filter(f) with f the filter of op: Err when
\* to_image fails; a filter that panics unwinds before the assignment of
\* self.data; else the data is replaced, width and height are kept
apply_filter(op) ==
    /\ handle.state = "live" /\ handle.api = "wasm"
    /\ \E i \in {to_image(handle)} :
          IF ~i.some THEN Called(CallOp(op), "err") /\ UNCHANGED handle
          ELSE \E r \in {ApplyOp(i.img, op)} :
                  IF IsPanic(r) THEN Called(CallOp(op), "panic") /\ UNCHANGED handle
                  ELSE Called(CallOp(op), "ok") /\ handle' = [handle EXCEPT !.data = r.pixels]
    /\ HandleFrame

WasmGrayscale ==
    /\ calls < MaxCalls
    /\ apply_filter(Grayscale)
WasmBrightness ==
    /\ calls < MaxCalls
    /\ \E v \in {-50, 20} : apply_filter(Brightness(v))
WasmContrast ==
    /\ calls < MaxCalls
    /\ \E v \in {0, 120} : apply_filter(Contrast(v))
WasmBlur ==
    /\ calls < MaxCalls
    /\ \E sigma \in {-100, 0, 100} : apply_filter(Blur(sigma))
WasmSharpen ==
    /\ calls < MaxCalls
    /\ apply_filter(Sharpen)
WasmEdgeDetect ==
    /\ calls < MaxCalls
    /\ apply_filter(EdgeDetect)
WasmInvert ==
    /\ calls < MaxCalls
    /\ apply_filter(Invert)
WasmSepia ==
    /\ calls < MaxCalls
    /\ apply_filter(Sepia)

\* WasmImageProcessor::resize(new_width, new_height)
WasmResize ==
    /\ calls < MaxCalls
    /\ handle.state = "live" /\ handle.api = "wasm"
    /\ \E d \in ResizeDims : \E i \in {to_image(handle)} :
          IF ~i.some THEN Called(Call("resize", 0, d[1], d[2]), "err") /\ UNCHANGED handle
          ELSE /\ Called(Call("resize", 0, d[1], d[2]), "ok")
               /\ handle' = Live("wasm", resize(i.img, d[1], d[2]).pixels, d[1], d[2])
    /\ HandleFrame

\* WasmImageProcessor::apply_filters(filters_json): the text is parsed first,
\* then to_image, then process; the three fields are assigned from the result
WasmApplyFilters ==
    /\ calls < MaxCalls
    /\ handle.state = "live" /\ handle.api = "wasm"
    /\ \E json \in FilterTexts : \E p \in {parse_filter_json(json)} :
          IF ~p.ok THEN Called(CallText(json), "err") /\ UNCHANGED handle
          ELSE \E i \in {to_image(handle)} :
                  IF ~i.some THEN Called(CallText(json), "err") /\ UNCHANGED handle
                  ELSE \E r \in {ProcessFn(i.img, p.ops)} :
                          IF IsPanic(r) THEN Called(CallText(json), "panic") /\ UNCHANGED handle
                          ELSE /\ Called(CallText(json), "ok")
                               /\ handle' = Live("wasm", r.pixels, r.width, r.height)
    /\ HandleFrame

\* the bytes that may lie behind the end of a caller's buffer
GarbageBytes == {0, 255}

\* slice::from_raw_parts(data, size).to_vec() on a buffer of Len(buf) bytes:
\* the first size bytes; reading past the end of the buffer is undefined, and
\* gives whatever bytes lie there (all g here)
ReadBytes(buf, size, g) ==
    Collect(size, LAMBDA j : IF j <= Len(buf) THEN buf[j] ELSE g)

\* image_pipeline_create(data, width, height): null for a null pointer; the
\* size is computed in u32 (a panic in a debug build, which aborts at the
\* extern "C" boundary, a wrapped value otherwise) and never compared with
\* the length of the caller's buffer; a read past the end of the buffer
\* either faults or yields the bytes found there
image_pipeline_create ==
    /\ calls < MaxCalls
    /\ handle.state = "none"
    /\ \/ Called(Call("create", 0, 0, 0), "null") /\ UNCHANGED handle
       \/ \E buf \in HandleBuffers : \E d \in HandleDims :
             \E c \in {CallData("create", buf, d[1], d[2])} :
             IF build = "debug" /\ Overflows(d[1], d[2])
             THEN Called(c, "abort") /\ UNCHANGED handle
             ELSE \E size \in {4 * WrappedQuarter(d[1], d[2])} :
                     \/ /\ Called(c, "ptr")
                        /\ \E g \in (IF size > Len(buf) THEN GarbageBytes ELSE {0}) :
                              handle' = Live("ffi", ReadBytes(buf, size, g), d[1], d[2])
                     \/ /\ size > Len(buf)
                        /\ Called(c, "abort")
                        /\ UNCHANGED handle
    /\ HandleFrame

\* image_pipeline_free(handle): the handle is dropped; a null handle is ignored
image_pipeline_free ==
    /\ calls < MaxCalls
    /\ handle.state = "none" \/ handle.api = "ffi"
    /\ Called(Call("free", 0, 0, 0), "void")
    /\ handle' = NoHandle
    /\ HandleFrame

\* the body shared by the filter functions of ffi.rs: -1 for a null handle
\* and when from_raw gives None; a filter that panics aborts at the
\* extern "C" boundary before h.data is assigned; else the data is replaced
FfiFilter(op) ==
    /\ handle.state = "none" \/ handle.api = "ffi"
    /\ IF handle.state = "none" THEN Called(CallOp(op), "-1") /\ UNCHANGED handle
       ELSE \E i \in {to_image(handle)} :
               IF ~i.some THEN Called(CallOp(op), "-1") /\ UNCHANGED handle
               ELSE \E r \in {ApplyOp(i.img, op)} :
                       IF IsPanic(r) THEN Called(CallOp(op), "abort") /\ UNCHANGED handle
                       ELSE Called(CallOp(op), "0") /\ handle' = [handle EXCEPT !.data = r.pixels]
    /\ HandleFrame

image_pipeline_grayscale ==
    /\ calls < MaxCalls
    /\ FfiFilter(Grayscale)
image_pipeline_brightness ==
    /\ calls < MaxCalls
    /\ \E v \in {-50, 20} : FfiFilter(Brightness(v))
image_pipeline_contrast ==
    /\ calls < MaxCalls
    /\ \E v \in {0, 120} : FfiFilter(Contrast(v))
image_pipeline_blur ==
    /\ calls < MaxCalls
    /\ \E sigma \in {-100, 0, 100} : FfiFilter(Blur(sigma))
image_pipeline_sharpen ==
    /\ calls < MaxCalls
    /\ FfiFilter(Sharpen)
image_pipeline_edge_detect ==
    /\ calls < MaxCalls
    /\ FfiFilter(EdgeDetect)
image_pipeline_invert ==
    /\ calls < MaxCalls
    /\ FfiFilter(Invert)
image_pipeline_sepia ==
    /\ calls < MaxCalls
    /\ FfiFilter(Sepia)

\* image_pipeline_resize(handle, new_width, new_height)
image_pipeline_resize ==
    /\ calls < MaxCalls
    /\ handle.state = "none" \/ handle.api = "ffi"
    /\ IF handle.state = "none" THEN Called(Call("resize", 0, 0, 0), "-1") /\ UNCHANGED handle
       ELSE \E d \in ResizeDims : \E i \in {to_image(handle)} :
               IF ~i.some THEN Called(Call("resize", 0, d[1], d[2]), "-1") /\ UNCHANGED handle
               ELSE /\ Called(Call("resize", 0, d[1], d[2]), "0")
                    /\ handle' = Live("ffi", resize(i.img, d[1], d[2]).pixels, d[1], d[2])
    /\ HandleFrame

----------------------------------------------------------------------------
(* The data-parallel calls, worker by worker.  rayon runs one closure call per
   row (filters.rs) or per chunk (simd.rs) on the workers of its pool, in any
   order and interleaved in any way; the call that started them returns when
   every closure call has returned. *)

ParCall(fn, img, sigma, chunk_size, f) ==
    [fn |-> fn, image |-> img, sigma |-> sigma, chunk_size |-> chunk_size, f |-> f]

NoParCall == ParCall("none", NoImage, 0, 0, "none")

\* everything of the handle and pipeline surfaces, which these calls leave alone
SeqFrame ==
    UNCHANGED <<build, pc, image, operations, idx, result, ret, executed,
                kernelCalls, fin, fop, fout, handle, hcall, hret, calls, hprev,
                parseVars>>

\* n workers (or rows), each in state st
Workers(n, st) == Collect(n, LAMBDA k : st)

\* the rows of a Vec<Vec<u8>>, flattened in order
RECURSIVE Flatten(_, _)
Flatten(rs, n) == IF n = 0 THEN <<>> ELSE Flatten(rs, n - 1) \o rs[n]

\* one get_pixel call of a pass: the output pixel (x, y), the tap i (1-based),
\* the buffer read, the coordinate (sx, sy) read and the pixel found there
Tap(pass, buf, x, y, i, sx, sy, px) ==
    [pass |-> pass, buf |-> buf, x |-> x, y |-> y, i |-> i,
     sx |-> sx, sy |-> sy, px |-> px]

\* the four bytes of pixel (x, y)
PixelAt(img, x, y) == <<GetPixel(img, x, y, 0), GetPixel(img, x, y, 1),
                        GetPixel(img, x, y, 2), GetPixel(img, x, y, 3)>>

\* the closure of the horizontal pass for row y: the row it returns
HorizontalRow(img, kernel, y) ==
    LET total == IF KernelIsNaN(kernel) THEN 1 ELSE SeqSum(kernel, Len(kernel))
    IN  Collect(img.width * 4, LAMBDA j :
            IF KernelIsNaN(kernel) THEN 0
            ELSE AsU8(TapSumH(img, kernel, (j - 1) \div 4, y, (j - 1) % 4,
                              Len(kernel)), total))

\* the get_pixel calls of the closure of the horizontal pass for row y
HorizontalTaps(img, kernel, y) ==
    {Tap("horizontal", "image", x, y, i,
         SampleCoord(x, i, Len(kernel) \div 2, img.width), y,
         PixelAt(img, SampleCoord(x, i, Len(kernel) \div 2, img.width), y)) :
        x \in 0..(img.width - 1), i \in 1..Len(kernel)}

\* the closure of the vertical pass for chunk y of `result`: the bytes it
\* writes into its row
VerticalRow(img, kernel, y) ==
    LET total == IF KernelIsNaN(kernel) THEN 1 ELSE SeqSum(kernel, Len(kernel))
    IN  Collect(img.width * 4, LAMBDA j :
            IF KernelIsNaN(kernel) THEN 0
            ELSE AsU8(TapSumV(img, kernel, (j - 1) \div 4, y, (j - 1) % 4,
                              Len(kernel)), total))

\* the get_pixel calls of the closure of the vertical pass for row y, on the
\* buffer named buf
VerticalTaps(buf, img, kernel, y) ==
    {Tap("vertical", buf, x, y, i,
         x, SampleCoord(y, i, Len(kernel) \div 2, img.height),
         PixelAt(img, x, SampleCoord(y, i, Len(kernel) \div 2, img.height))) :
        x \in 0..(img.width - 1), i \in 1..Len(kernel)}

\* a faulty VerticalMayStart, for testing the claim that rests on it: the
\* vertical worker of row y starts as soon as the horizontal worker of row y returned
VerticalMayStartRowReady(y) == ppc \in {"horizontal", "vertical"} /\ hwork[y + 1] = "done"

\* blur runs apply_convolution_1d_vertical after apply_convolution_1d_horizontal
\* returned (filters.rs:74-76): its workers exist only then
VerticalMayStart(y) == ppc = "vertical"

\* apply_convolution_1d_vertical(&horizontal, &kernel): the buffer the vertical
\* pass reads
VerticalInput == [buf |-> "horizontal", img |-> horizontal]

\* the images and sigmas blur is run on worker by worker; sigma = 1.5 gives
\* radius 5, more than the width and the height of every image here
BlurImages == PipelineImages
BlurSigmas == {-100, 0, 10, 150}

\* blur(image, sigma) is called: the kernel is built and the horizontal pass
\* hands one closure call per row to the pool; the closure calls of the
\* vertical pass, one per row too, are "todo" until a worker takes them.  A negative radius panics in
\* create_gaussian_kernel.
BlurCall ==
    /\ ppc = "idle"
    /\ \E img \in BlurImages, sg \in BlurSigmas :
         \E kernel \in {create_gaussian_kernel(Radius(sg), sg)} :
          /\ pcall' = ParCall("blur", img, sg, 0, "none")
          /\ IF kernel = NoKernel
             THEN /\ ppc' = "panicked"
                  /\ pret' = Returned("panic", NoImage)
                  /\ UNCHANGED <<bkernel, hwork, hrows, vwork>>
             ELSE /\ ppc' = "horizontal"
                  /\ bkernel' = kernel
                  /\ hwork' = Workers(img.height, "todo")
                  /\ hrows' = Workers(img.height, <<>>)
                  /\ vwork' = Workers(img.height, "todo")
                  /\ pret' = pret
    /\ UNCHANGED <<horizontal, vresult, slice, cwork, taps, reads, writes>>
    /\ SeqFrame

\* a worker takes the closure call of row y of the horizontal pass
HorizontalStart ==
    /\ ppc = "horizontal"
    /\ \E y \in 0..(pcall.image.height - 1) :
          /\ hwork[y + 1] = "todo"
          /\ hwork' = [hwork EXCEPT ![y + 1] = "running"]
    /\ UNCHANGED <<ppc, pcall, bkernel, hrows, horizontal, vwork, vresult, slice,
                   cwork, taps, reads, writes, pret>>
    /\ SeqFrame

\* the closure call of row y returns its row
HorizontalFinish ==
    /\ ppc = "horizontal"
    /\ \E y \in 0..(pcall.image.height - 1) :
          /\ hwork[y + 1] = "running"
          /\ hwork' = [hwork EXCEPT ![y + 1] = "done"]
          /\ hrows' = [hrows EXCEPT ![y + 1] = HorizontalRow(pcall.image, bkernel, y)]
          /\ taps' = taps \cup HorizontalTaps(pcall.image, bkernel, y)
    /\ UNCHANGED <<ppc, pcall, bkernel, horizontal, vwork, vresult, slice, cwork,
                   reads, writes, pret>>
    /\ SeqFrame

\* .collect() has every row: apply_convolution_1d_horizontal flattens them and
\* returns the image (from_raw(..).unwrap() finds width * height * 4 bytes);
\* blur then calls apply_convolution_1d_vertical on it, which allocates
\* `result` and hands one closure call per chunk of width * 4 bytes to the
\* pool.  par_chunks_mut panics on a chunk size of 0.
HorizontalCollect ==
    /\ ppc = "horizontal"
    /\ \A y \in 0..(pcall.image.height - 1) : hwork[y + 1] = "done"
    /\ horizontal' = [width  |-> pcall.image.width,
                      height |-> pcall.image.height,
                      pixels |-> Flatten(hrows, Len(hrows))]
    /\ vresult' = Workers(pcall.image.width * pcall.image.height * 4, 0)
    /\ IF pcall.image.width = 0
       THEN /\ ppc' = "panicked"
            /\ pret' = Returned("panic", NoImage)
       ELSE /\ ppc' = "vertical"
            /\ pret' = pret
    /\ UNCHANGED <<pcall, bkernel, hwork, hrows, vwork, slice, cwork, taps, reads,
                   writes>>
    /\ SeqFrame

\* a worker takes the closure call of chunk y of the vertical pass
VerticalStart ==
    /\ \E y \in 0..(pcall.image.height - 1) :
          /\ pcall.fn = "blur"
          /\ VerticalMayStart(y)
          /\ vwork[y + 1] = "todo"
          /\ vwork' = [vwork EXCEPT ![y + 1] = "running"]
    /\ UNCHANGED <<ppc, pcall, bkernel, hwork, hrows, horizontal, vresult, slice,
                   cwork, taps, reads, writes, pret>>
    /\ SeqFrame

\* the closure call of chunk y has written its row of `result`
VerticalFinish ==
    /\ ppc = "vertical"
    /\ \E y \in 0..(pcall.image.height - 1) :
          LET w    == pcall.image.width
              row  == VerticalRow(VerticalInput.img, bkernel, y)
          IN  /\ vwork[y + 1] = "running"
              /\ vwork' = [vwork EXCEPT ![y + 1] = "done"]
              /\ vresult' = Collect(Len(vresult), LAMBDA j :
                               IF (j - 1) \div (w * 4) = y
                               THEN row[((j - 1) % (w * 4)) + 1]
                               ELSE vresult[j])
              /\ taps' = taps \cup VerticalTaps(VerticalInput.buf, VerticalInput.img,
                                                bkernel, y)
              /\ writes' = writes \cup
                             {<<y, j>> : j \in (y * w * 4 + 1)..((y + 1) * w * 4)}
    /\ UNCHANGED <<ppc, pcall, bkernel, hwork, hrows, horizontal, slice, cwork,
                   reads, pret>>
    /\ SeqFrame

\* for_each returned: ImageBuffer::from_raw(width, height, result).unwrap()
BlurReturn ==
    /\ ppc = "vertical"
    /\ \A y \in 0..(pcall.image.height - 1) : vwork[y + 1] = "done"
    /\ ppc' = "done"
    /\ pret' = Returned("Ok", [width  |-> pcall.image.width,
                               height |-> pcall.image.height,
                               pixels |-> vresult])
    /\ UNCHANGED <<pcall, bkernel, hwork, hrows, horizontal, vwork, vresult, slice,
                   cwork, taps, reads, writes>>
    /\ SeqFrame

----------------------------------------------------------------------------
(* simd.rs, chunk by chunk: par_chunks_mut(chunk_size).for_each(f) *)

\* the number of chunks of a slice of len bytes
NumChunks(len, size) == (len + size - 1) \div size

\* a faulty ChunkStart, for testing the claim that rests on it: each chunk
\* starts on the last byte of the chunk before it
ChunkStartOverlapping(k, size) == (k - 1) * (size - 1)

\* the offset in the slice of the first byte of chunk k (1-based)
ChunkStart(k, size) == (k - 1) * size

\* the length of chunk k: chunk_size, but for a shorter last chunk
ChunkLen(len, k, size) == Min(size, len - ChunkStart(k, size))

\* the bodies of the loops of grayscale_fast ("gray") and invert_simd
\* ("invert") on the group that starts at byte `at` (1-based) of buf: the new
\* chunk[i], chunk[i + 1], chunk[i + 2]
LoopBody(f, buf, at) ==
    IF f = "gray"
    THEN LET gray == (buf[at] + 2 * buf[at + 1] + buf[at + 2]) \div 4
         IN  <<gray, gray, gray>>
    ELSE <<255 - buf[at], 255 - buf[at + 1], 255 - buf[at + 2]>>

\* process_pixels_parallel(pixels, chunk_size, f) run chunk after chunk, f
\* being one of the two loops above; par_chunks_mut asserts chunk_size != 0
process_pixels_parallel(buf, chunk_size, f) ==
    IF chunk_size = 0 THEN Panic
    ELSE RawSlice(Collect(Len(buf), LAMBDA j :
            LET k  == ((j - 1) \div chunk_size) + 1
                o  == (j - 1) % chunk_size
                i  == o - (o % 4)
                at == (k - 1) * chunk_size + i + 1
            IN  IF i + 3 < Min(chunk_size, Len(buf) - (k - 1) * chunk_size) /\ o % 4 # 3
                THEN LoopBody(f, buf, at)[(o % 4) + 1]
                ELSE buf[j]))

\* the slices the chunk workers are run on: a whole image of two chunks, the
\* slice of test_grayscale_fast, a slice that ends in half a pixel, none
ParSlices ==
    {PatternImage(MaxW, MaxH, MaxSeed).pixels,
     <<255, 0, 0, 255, 0, 255, 0, 255, 0, 0, 255, 255>>,
     <<9, 8, 7, 6, 5, 4>>, <<>>}

\* chunk_size: usize
ChunkSizes == {0, 6, 16}

\* the calls that hand chunks to the pool
SimdCalls ==
    {ParCall("grayscale_fast", NoImage, 0, 16, "gray"),
     ParCall("invert_simd", NoImage, 0, 16, "invert")}
      \cup {ParCall("process_pixels_parallel", NoImage, 0, c, f) :
               c \in ChunkSizes, f \in {"gray", "invert"}}

\* grayscale_fast, invert_simd or process_pixels_parallel is called on a
\* slice: one closure call per chunk is handed to the pool
SimdCall ==
    /\ ppc = "idle"
    /\ \E buf \in ParSlices, c \in SimdCalls :
          /\ pcall' = ParCall(c.fn, RawSlice(buf), 0, c.chunk_size, c.f)
          /\ slice' = buf
          /\ IF c.chunk_size = 0
             THEN /\ ppc' = "panicked"
                  /\ pret' = Returned("panic", NoImage)
                  /\ cwork' = cwork
             ELSE /\ ppc' = "chunks"
                  /\ cwork' = Workers(NumChunks(Len(buf), c.chunk_size), 0)
                  /\ pret' = pret
    /\ UNCHANGED <<bkernel, hwork, hrows, horizontal, vwork, vresult, taps, reads,
                   writes>>
    /\ SeqFrame

\* the worker of chunk k runs one iteration of `for i in (0..chunk.len()).step_by(4)`
ChunkStep ==
    /\ ppc = "chunks"
    /\ \E k \in 1..Len(cwork) :
          LET len == ChunkLen(Len(slice), k, pcall.chunk_size)
              i   == cwork[k]
              at  == ChunkStart(k, pcall.chunk_size) + i + 1
          IN  /\ i < len
              /\ cwork' = [cwork EXCEPT ![k] = i + 4]
              /\ IF i + 3 < len
                 THEN /\ slice' = Collect(Len(slice), LAMBDA j :
                                     IF j \in at..(at + 2)
                                     THEN LoopBody(pcall.f, slice, at)[j - at + 1]
                                     ELSE slice[j])
                      /\ reads' = reads \cup {<<k, j>> : j \in at..(at + 2)}
                      /\ writes' = writes \cup {<<k, j>> : j \in at..(at + 2)}
                 ELSE UNCHANGED <<slice, reads, writes>>
    /\ UNCHANGED <<ppc, pcall, bkernel, hwork, hrows, horizontal, vwork, vresult,
                   taps, pret>>
    /\ SeqFrame

\* every closure call returned: for_each returns and the caller has its slice
SimdReturn ==
    /\ ppc = "chunks"
    /\ \A k \in 1..Len(cwork) :
          cwork[k] >= ChunkLen(Len(slice), k, pcall.chunk_size)
    /\ ppc' = "done"
    /\ pret' = Returned("Ok", RawSlice(slice))
    /\ UNCHANGED <<pcall, bkernel, hwork, hrows, horizontal, vwork, vresult, slice,
                   cwork, taps, reads, writes>>
    /\ SeqFrame

----------------------------------------------------------------------------
(* parse_filter_json called on the text of a list of entries *)

\* before the call
NotParsed == [ok |-> FALSE, ops |-> <<>>]

\* an entry of a filter list: its text, and the FilterOperation variant its
\* "type" names ("none" when parse_single_filter knows no such name)
Entry(text, type) == [text |-> text, type |-> type]

\* the entries the lists are made of: the two of the comment of apply_filters
\* (wasm lib.rs:120), entries with the keys of parse_single_filter, one with
\* a name it does not know
ParseEntries ==
    {Entry("{\"type\": \"grayscale\"}", "Grayscale"),
     Entry("{\"type\": \"brightness\", \"value\": 0.2}", "Brightness"),
     Entry("{\"type\": \"sepia\"}", "Sepia"),
     Entry("{\"type\": \"blur\", \"sigma\": 1.5}", "Blur"),
     Entry("{\"type\": \"resize\", \"width\": 1, \"height\": 3}", "Resize"),
     Entry("{\"type\": \"emboss\"}", "none")}

\* what separates two entries of a list: a comma, with or without spaces
Separators == {",", ", ", " , "}

\* the lists of exactly n entries
RECURSIVE EntryLists(_)
EntryLists(n) ==
    IF n = 0 THEN {<<>>}
    ELSE {Append(l, e) : l \in EntryLists(n - 1), e \in ParseEntries}

\* the text of the first n entries of a list, sep between them
RECURSIVE JoinEntries(_, _, _)
JoinEntries(l, sep, n) ==
    IF n = 0 THEN ""
    ELSE IF n = 1 THEN l[1].text
    ELSE JoinEntries(l, sep, n - 1) \o sep \o l[n].text

\* the bracketed text of a list
ListText(l, sep) == "[" \o JoinEntries(l, sep, Len(l)) \o "]"

\* parse_filter_json(json) is called on the text of a list of at most MaxOps
\* entries, or on a text without brackets
ParseCall ==
    /\ jtext = ""
    /\ \/ \E n \in 0..MaxOps : \E l \in EntryLists(n) : \E sep \in Separators :
             \E text \in {ListText(l, sep)} :
                /\ jentries' = l
                /\ jtext' = text
                /\ jparsed' = parse_filter_json(text)
       \/ /\ jentries' = <<>>
          /\ jtext' = "grayscale"
          /\ jparsed' = parse_filter_json("grayscale")
    /\ UNCHANGED <<build, pc, image, operations, idx, result, ret, executed,
                   kernelCalls, fin, fop, fout, handle, hcall, hret, calls, hprev,
                   parVars>>

----------------------------------------------------------------------------
(* Specifications *)

Init ==
    /\ build \in Builds
    /\ pc = "idle"
    /\ image = NoImage
    /\ operations = <<>>
    /\ idx = 0
    /\ result = NoImage
    /\ ret = NoRet
    /\ executed = <<>>
    /\ kernelCalls = {}
    /\ fin = NoImage
    /\ fop = Op("none", 0, 0)
    /\ fout = NoRet
    /\ handle = NoHandle
    /\ hcall = NoCall
    /\ hret = "none"
    /\ calls = 0
    /\ hprev = NoHandle
    /\ ppc = "idle"
    /\ pcall = NoParCall
    /\ bkernel = NoKernel
    /\ hwork = <<>>
    /\ hrows = <<>>
    /\ horizontal = NoImage
    /\ vwork = <<>>
    /\ vresult = <<>>
    /\ slice = <<>>
    /\ cwork = <<>>
    /\ taps = {}
    /\ reads = {}
    /\ writes = {}
    /\ pret = NoRet
    /\ jentries = <<>>
    /\ jtext = ""
    /\ jparsed = NotParsed

Next == ProcessCall \/ ProcessStep \/ ProcessReturn

\* ImagePipeline::process, called once on any image and any operation list
Spec == Init /\ [][Next]_vars

FilterNext ==
    \/ CallGrayscale \/ CallBrightness \/ CallContrast \/ CallBlur \/ CallSharpen
    \/ CallEdgeDetect \/ CallResize \/ CallInvert \/ CallSepia
    \/ CallGrayscaleFast \/ CallBrightnessSimd \/ CallInvertSimd

\* one direct call of a filter function of filters.rs or simd.rs, on any
\* image or slice with any argument
SpecFilter == Init /\ [][FilterNext]_vars

HandleNext ==
    \/ WasmNew \/ WasmReset \/ WasmGrayscale \/ WasmBrightness \/ WasmContrast
    \/ WasmBlur \/ WasmSharpen \/ WasmEdgeDetect \/ WasmResize \/ WasmInvert
    \/ WasmSepia \/ WasmApplyFilters
    \/ image_pipeline_create \/ image_pipeline_free \/ image_pipeline_grayscale
    \/ image_pipeline_brightness \/ image_pipeline_contrast \/ image_pipeline_blur
    \/ image_pipeline_sharpen \/ image_pipeline_edge_detect \/ image_pipeline_resize
    \/ image_pipeline_invert \/ image_pipeline_sepia

\* any sequence of at most MaxCalls calls on one handle of either surface
SpecHandle == Init /\ [][HandleNext]_vars

ParallelNext ==
    \/ BlurCall \/ HorizontalStart \/ HorizontalFinish \/ HorizontalCollect
    \/ VerticalStart \/ VerticalFinish \/ BlurReturn
    \/ SimdCall \/ ChunkStep \/ SimdReturn

\* one data-parallel call, its closure calls run by the workers in any order
SpecParallel == Init /\ [][ParallelNext]_vars

ParseNext == ParseCall

\* one call of parse_filter_json
SpecParse == Init /\ [][ParseNext]_vars

----------------------------------------------------------------------------
(* Claims about ImagePipeline::process, checked under Spec *)

\* what the finished call of process gave: the returned image, Panic if it unwound
Outcome == IF pc = "done" THEN ret.value ELSE Panic

\* process(process(img, xs), ys); nothing can be passed on when the first call unwound
ProcessTwice(img, xs, ys) ==
    LET first == ProcessFn(img, xs)
    IN  IF IsPanic(first) THEN Panic ELSE ProcessFn(first, ys)

\* C1: process(B, []) succeeds and returns a buffer with the width, the height
\* and byte for byte the pixels of B.
C1_EmptyListReturnsInput ==
    operations = <<>> =>
        /\ pc # "panicked"
        /\ pc = "done" => /\ ret.kind = "Ok"
                          /\ ret.value.width = image.width
                          /\ ret.value.height = image.height
                          /\ ret.value.pixels = image.pixels

\* C1's case: a call with an empty list on a non-empty image has returned
C1_Witness ==
    /\ pc = "done"
    /\ operations = <<>>
    /\ Len(image.pixels) = MaxW * MaxH * 4

\* C2: the operations are applied strictly in list order, none skipped, fused
\* or reordered, each receiving the complete output of the one before: the
\* filters called so far are the list's prefix, in order, and for every split
\* of the list into xs ++ ys, process(B, xs ++ ys) = process(process(B, xs), ys).
C2_SequentialFold ==
    /\ executed = SubSeq(operations, 1, Len(executed))
    /\ pc = "loop" => Len(executed) = idx - 1
    /\ pc = "done" => executed = operations
    /\ pc \in {"done", "panicked"} =>
          \A k \in 0..Len(operations) :
              Outcome = ProcessTwice(image, SubSeq(operations, 1, k),
                                     SubSeq(operations, k + 1, Len(operations)))

\* C2's case: a list of two operations that do not commute has been run to the end
C2_Witness ==
    /\ pc = "done"
    /\ Len(operations) = MaxOps
    /\ operations[1] = Sepia
    /\ operations[2] = Grayscale
    /\ ret.value # ProcessFn(image, <<Grayscale, Sepia>>)

\* the operation's preconditions are violated: a Resize with a zero
\* dimension, a Blur with a non-positive sigma
ViolatesPreconditions(op) ==
    \/ op.type = "Resize" /\ (op.a = 0 \/ op.b = 0)
    \/ op.type = "Blur" /\ op.a <= 0

\* the position of the first operation with violated preconditions, 0 if none
FirstViolation(ops) ==
    IF \E i \in 1..Len(ops) : ViolatesPreconditions(ops[i])
    THEN CHOOSE i \in 1..Len(ops) :
            /\ ViolatesPreconditions(ops[i])
            /\ \A j \in 1..(i - 1) : ~ViolatesPreconditions(ops[j])
    ELSE 0

\* C3: a pipeline fails fast.  When the list has an operation with violated
\* preconditions and the call got as far as the first such operation, process
\* returns an error (no buffer) and has executed no later operation.
C3_FailFast ==
    (/\ pc \in {"done", "panicked"}
     /\ FirstViolation(operations) # 0
     /\ Len(executed) >= FirstViolation(operations))
    => /\ ret.kind = "Err"
       /\ Len(executed) = FirstViolation(operations)

----------------------------------------------------------------------------
(* Claims about the filter functions, checked under SpecFilter *)

\* C6: Resize(w, h) with w = 0 or h = 0 fails with an InvalidDimensions error
\* and returns no buffer.
C6_ResizeZeroFails ==
    (/\ fop.type = "Resize"
     /\ fop.a = 0 \/ fop.b = 0
     /\ fin.width >= 1 /\ fin.height >= 1)
    => fout.kind = "Err"

\* C7: create_gaussian_kernel is never invoked with sigma <= 0 nor with a
\* negative radius: blur and sharpen reject such a sigma before the kernel is built.
C7_KernelNeverNonPositive ==
    \A c \in kernelCalls : c[1] >= 0 /\ c[2] > 0

\* C8: invert is an exact involution: invert(invert(B)) = B, byte for byte on
\* all four channels, with the same dimensions.
C8_InvertInvolution ==
    fop.type = "Invert" =>
        /\ fout.kind = "Ok"
        /\ invert(fout.value) = fin

\* C8's case: invert was called on an image it changes
C8_Witness ==
    /\ fop.type = "Invert"
    /\ fout.kind = "Ok"
    /\ fout.value # fin
    /\ Len(fin.pixels) = MaxW * MaxH * 4

\* the i-th pixel (0-based) of a raw buffer has R = G = B
Achromatic(raw, i) ==
    Chunk(raw, i, 0) = Chunk(raw, i, 1) /\ Chunk(raw, i, 1) = Chunk(raw, i, 2)

\* C9: every pixel of grayscale's output is achromatic: R = G = B.
C9_GrayscaleAchromatic ==
    fop.type = "Grayscale" =>
        /\ fout.kind = "Ok"
        /\ Len(fout.value.pixels) = Len(fin.pixels)
        /\ \A i \in 0..(Len(fout.value.pixels) \div 4 - 1) :
              Achromatic(fout.value.pixels, i)

\* C9's case: grayscale was called on an image with a pixel that is not achromatic
C9_Witness ==
    /\ fop.type = "Grayscale"
    /\ fout.kind = "Ok"
    /\ \E i \in 0..(Len(fin.pixels) \div 4 - 1) : ~Achromatic(fin.pixels, i)

\* the filters C10 is about: all but resize
SameSizeFilters ==
    {"Grayscale", "Brightness", "Contrast", "Blur", "Sharpen", "EdgeDetect",
     "Invert", "Sepia"}

\* C10: for every input with width >= 1 and height >= 1, each filter but
\* resize (blur with sigma > 0) completes without panicking and returns a
\* buffer of the input's width and height with width * height * 4 bytes.
C10_FiltersTotalSameSize ==
    (/\ fop.type \in SameSizeFilters
     /\ fin.width >= 1 /\ fin.height >= 1
     /\ fop.type = "Blur" => fop.a > 0
     /\ fop.type = "Brightness" => (fop.a >= -100 /\ fop.a <= 100))
    => /\ fout.kind = "Ok"
       /\ fout.value.width = fin.width
       /\ fout.value.height = fin.height
       /\ Len(fout.value.pixels) = fin.width * fin.height * 4

\* the filters that are to keep alpha
AlphaKeepers ==
    {"Grayscale", "Brightness", "Contrast", "Sharpen", "Invert", "Sepia",
     "grayscale_fast", "brightness_simd", "invert_simd"}

\* C11: grayscale, brightness, contrast, sharpen, invert and sepia, and the
\* in-place grayscale_fast, brightness_simd and invert_simd, leave the alpha
\* byte of every pixel equal to the input's alpha byte at the same position.
C11_AlphaPreserved ==
    (fop.type \in AlphaKeepers /\ fout.kind = "Ok")
    => /\ Len(fout.value.pixels) = Len(fin.pixels)
       /\ \A i \in 0..(Len(fin.pixels) \div 4 - 1) :
             Chunk(fout.value.pixels, i, 3) = Chunk(fin.pixels, i, 3)

\* C11's case: sharpen has changed the colours of an image whose alpha bytes
\* are neither 0 nor 255
C11_Witness ==
    /\ fop.type = "Sharpen"
    /\ fout.kind = "Ok"
    /\ fout.value # fin
    /\ Len(fin.pixels) = MaxW * MaxH * 4
    /\ \E i \in 0..(Len(fin.pixels) \div 4 - 1) : Chunk(fin.pixels, i, 3) \notin {0, 255}

\* round(0.2126 r + 0.7152 g + 0.0722 b): the luma to the nearest integer
\* (no luma lies halfway between two integers)
RoundedLuma(r, g, b) == (2126 * r + 7152 * g + 722 * b + 5000) \div 10000

\* C12: for every pixel, grayscale writes round(0.2126 R + 0.7152 G + 0.0722 B)
\* to all three colour channels.
C12_GrayscaleRounds ==
    (fop.type = "Grayscale" /\ fout.kind = "Ok")
    => \A i \in 0..(Len(fin.pixels) \div 4 - 1) : \A c \in 0..2 :
          Chunk(fout.value.pixels, i, c)
            = RoundedLuma(Chunk(fin.pixels, i, 0), Chunk(fin.pixels, i, 1),
                          Chunk(fin.pixels, i, 2))

\* the call brightness(fin, v) or brightness_simd(fin, v), as fop names it
BrightnessOf(v) ==
    IF fop.type = "Brightness" THEN brightness(fin, v)
    ELSE brightness_simd(fin.pixels, v)

\* the values the brightness call of fop may be compared with
BrightnessArgs ==
    IF fop.type = "Brightness" THEN BrightnessVals ELSE SimdAdjustments

\* C13: brightness is monotonic in v, values far outside [-1, 1] included: the
\* call returns (the addition does not overflow) and for all v1 <= v no byte
\* of brightness(v1) is above the same byte of brightness(v).
C13_BrightnessMonotonic ==
    fop.type \in {"Brightness", "brightness_simd"}
    => /\ fout.kind = "Ok"
       /\ \A v1 \in BrightnessArgs :
             v1 <= fop.a =>
                /\ ~IsPanic(BrightnessOf(v1))
                /\ \A j \in 1..Len(fin.pixels) :
                      BrightnessOf(v1).pixels[j] <= fout.value.pixels[j]

\* byte 0 of pixel (x, y) of the grayscale of the input of the call
GrayAt(x, y) == GetPixel(grayscale(fin), x, y, 0)

\* the Sobel responses at (x, y) on the grayscale image
SobelGx(x, y) ==
    (GrayAt(x + 1, y - 1) + 2 * GrayAt(x + 1, y) + GrayAt(x + 1, y + 1))
      - (GrayAt(x - 1, y - 1) + 2 * GrayAt(x - 1, y) + GrayAt(x - 1, y + 1))
SobelGy(x, y) ==
    (GrayAt(x - 1, y + 1) + 2 * GrayAt(x, y + 1) + GrayAt(x + 1, y + 1))
      - (GrayAt(x - 1, y - 1) + 2 * GrayAt(x, y - 1) + GrayAt(x + 1, y - 1))

\* m is clamp(sqrt(v), 0, 255) as a byte
IsClampedSqrt(m, v) ==
    IF v >= 255 * 255 THEN m = 255 ELSE m * m <= v /\ v < (m + 1) * (m + 1)

\* (x, y) is on the one-pixel border of the input of the call
OnBorder(x, y) == x = 0 \/ x = fin.width - 1 \/ y = 0 \/ y = fin.height - 1

\* C14: in edge_detect's output every pixel of the one-pixel border is
\* (0, 0, 0, 0), and every interior pixel (x, y) has
\* R = G = B = clamp(sqrt(Gx^2 + Gy^2), 0, 255) of the Sobel response on the
\* grayscale image and A = 255, at that same (x, y).
C14_EdgeBorderAndInterior ==
    (fop.type = "EdgeDetect" /\ fout.kind = "Ok")
    => /\ fout.value.width = fin.width /\ fout.value.height = fin.height
       /\ \A x \in 0..(fin.width - 1) : \A y \in 0..(fin.height - 1) :
             IF OnBorder(x, y)
             THEN \A c \in 0..3 : GetPixel(fout.value, x, y, c) = 0
             ELSE /\ \A c \in 0..2 :
                        IsClampedSqrt(GetPixel(fout.value, x, y, c),
                                      SobelGx(x, y) * SobelGx(x, y)
                                        + SobelGy(x, y) * SobelGy(x, y))
                  /\ GetPixel(fout.value, x, y, 3) = 255

\* C14's case: edge_detect returned an image with several interior pixels, two
\* of them with different magnitudes, one of these neither 0 nor 255
C14_Witness ==
    /\ fop.type = "EdgeDetect"
    /\ fout.kind = "Ok"
    /\ fin.width >= 4 /\ fin.height >= 4
    /\ \E x \in 1..(fin.width - 2) : \E y \in 1..(fin.height - 2) :
          /\ GetPixel(fout.value, x, y, 0) \notin {0, 255}
          /\ GetPixel(fout.value, x, y, 0) # GetPixel(fout.value, 1, 1, 0)

----------------------------------------------------------------------------
(* Claims about the workers, checked under SpecParallel *)

\* a closure call of the vertical pass has been taken by a worker
VerticalStarted == \E y \in 1..Len(vwork) : vwork[y] # "todo"

\* every closure call of the horizontal pass has returned its whole row and
\* the intermediate buffer is these rows
HorizontalComplete ==
    /\ \A y \in 1..Len(hwork) :
          hwork[y] = "done" /\ Len(hrows[y]) = pcall.image.width * 4
    /\ horizontal.width = pcall.image.width
    /\ horizontal.height = pcall.image.height
    /\ horizontal.pixels = Flatten(hrows, Len(hrows))

\* C15: in blur, no worker of the vertical pass starts until every row worker
\* of the horizontal pass has finished and the whole horizontal output exists;
\* the vertical pass reads only that completed intermediate buffer, never the
\* original input.
C15_BlurBarrier ==
    pcall.fn = "blur"
        => /\ VerticalStarted => HorizontalComplete
           /\ \A t \in taps :
                 t.pass = "vertical"
                     => /\ t.buf = "horizontal"
                        /\ t.px = PixelAt(horizontal, t.sx, t.sy)

\* C15's case: a vertical worker runs while another has not started, on an
\* intermediate buffer that differs from the original image
C15_Witness ==
    /\ pcall.fn = "blur"
    /\ \E y \in 1..Len(vwork) : vwork[y] = "done"
    /\ \E y \in 1..Len(vwork) : vwork[y] = "todo"
    /\ horizontal.pixels # pcall.image.pixels
    /\ \E t \in taps : t.pass = "vertical" /\ t.sy # t.y

\* the bytes of the output buffer that are worker w's: row w of `result`
\* (vertical pass), chunk w of `pixels` (simd.rs)
InOwnRange(w, j) ==
    IF pcall.fn = "blur"
    THEN (j - 1) \div (pcall.image.width * 4) = w
    ELSE (j - 1) \div pcall.chunk_size = w - 1

\* pixel i (0-based) of the slice after a loop of simd.rs, from pixel i before
PixelFromSamePosition(out, in, f, i) ==
    /\ out[4 * i + 4] = in[4 * i + 4]
    /\ IF f = "gray"
       THEN \A c \in 1..3 :
               out[4 * i + c] = (in[4 * i + 1] + 2 * in[4 * i + 2] + in[4 * i + 3]) \div 4
       ELSE \A c \in 1..3 : out[4 * i + c] = 255 - in[4 * i + c]

TapPosition(t) ==
    (IF t.pass = "horizontal" THEN t.x ELSE t.y) + (t.i - 1) - (Len(bkernel) \div 2)

\* the length of the axis sample t moves along
AxisLength(t) ==
    IF t.pass = "horizontal" THEN pcall.image.width ELSE pcall.image.height

\* the coordinate sample t read on its axis
Sampled(t) == IF t.pass = "horizontal" THEN t.sx ELSE t.sy

\* C17: in both blur passes, for every output pixel and every kernel tap, the
\* sampled coordinate is the tap position clamped to the nearest valid column
\* (0..width-1) or row (0..height-1): it never wraps around to the opposite
\* edge and is never outside the image, for every kernel radius, radii larger
\* than the image included.
C17_SampleClamped ==
    /\ \A t \in taps :
          /\ Sampled(t) \in 0..(AxisLength(t) - 1)
          /\ TapPosition(t) < 0 => Sampled(t) = 0
          /\ TapPosition(t) > AxisLength(t) - 1 => Sampled(t) = AxisLength(t) - 1
          /\ TapPosition(t) \in 0..(AxisLength(t) - 1) => Sampled(t) = TapPosition(t)
          /\ t.pass = "horizontal" => t.sy = t.y
          /\ t.pass = "vertical" => t.sx = t.x
    /\ (ppc = "done" /\ pcall.fn = "blur")
          => \A x \in 0..(pcall.image.width - 1) :
                \A y \in 0..(pcall.image.height - 1) :
                   \A i \in 1..Len(bkernel) :
                      \A pass \in {"horizontal", "vertical"} :
                         \E t \in taps : t.pass = pass /\ t.x = x /\ t.y = y /\ t.i = i

\* C17's case: a blur whose radius is larger than the image has returned, with
\* taps beyond both ends of a row and of a column of several pixels
C17_Witness ==
    /\ ppc = "done"
    /\ pcall.fn = "blur"
    /\ pcall.image.width >= 2 /\ pcall.image.height >= 2
    /\ Len(bkernel) \div 2 > pcall.image.width
    /\ Len(bkernel) \div 2 > pcall.image.height
    /\ \A pass \in {"horizontal", "vertical"} :
          /\ \E t \in taps : t.pass = pass /\ TapPosition(t) < 0
          /\ \E t \in taps : t.pass = pass /\ TapPosition(t) > AxisLength(t) - 1

----------------------------------------------------------------------------
(* Claims about the handles, checked under SpecHandle *)

\* the last call was a construction from raw bytes
ConstructCalled == hcall.fn \in {"new", "reset", "create"} /\ hret # "null"

\* the last construction gave the caller a buffer
ConstructSucceeded == hret \in {"ok", "ptr"}

\* C4: WasmImageProcessor::new, ::reset and image_pipeline_create fail, and
\* produce no buffer, whenever the number of bytes supplied differs from
\* width * height * 4 over the integers, for every u32 width and height
\* (those whose product does not fit in 32 bits included).
C4_ConstructRejectsMismatch ==
    (ConstructCalled /\ ~LenIsExactSize(hcall.bytes, hcall.width, hcall.height))
        => ~ConstructSucceeded

\* C5: after any sequence of calls on a handle, successful or failed, the
\* stored state of a live handle satisfies data.len() = width * height * 4.
C5_HandleInvariant ==
    handle.state = "live"
        => LenIsExactSize(Len(handle.data), handle.width, handle.height)

\* the last call was one that changes the handle when it succeeds
MutatingCall ==
    hcall.fn \in {"Grayscale", "Brightness", "Contrast", "Blur", "Sharpen",
                  "EdgeDetect", "Invert", "Sepia", "resize", "apply_filters", "reset"}

\* the handle a mutating call leaves when it runs to its end on the handle it
\* found: every field from the complete output
Replaced ==
    LET img == to_image(hprev).img
    IN  CASE hcall.fn = "reset" ->
                Live(hprev.api, hcall.data, hcall.width, hcall.height)
          [] hcall.fn = "resize" ->
                Live(hprev.api, resize(img, hcall.width, hcall.height).pixels,
                     hcall.width, hcall.height)
          [] hcall.fn = "apply_filters" ->
                LET r == ProcessFn(img, parse_filter_json(hcall.text).ops)
                IN  Live(hprev.api, r.pixels, r.width, r.height)
          [] OTHER ->
                Live(hprev.api, ApplyOp(img, hcall.op).pixels, hprev.width, hprev.height)

\* C18: a mutating call on a handle (a filter, resize, apply_filters, reset)
\* either replaces the handle's buffer wholesale with the complete output or,
\* when it reports failure (-1 / Err), leaves data, width and height as they
\* were before the call; a null handle yields the error code and touches nothing.
C18_WholesaleOrUntouched ==
    MutatingCall
        => /\ hret \in {"ok", "0", "err", "-1", "panic", "abort"}
           /\ hret \in {"err", "-1", "panic", "abort"} => handle = hprev
           /\ hret \in {"ok", "0"} => handle = Replaced
           /\ hprev.state = "none" => hret = "-1" /\ handle = NoHandle

\* C18's case: a failed call after a successful one that changed the handle
\* (the handle still holds the earlier output), or a resize that succeeded
C18_Witness ==
    /\ MutatingCall
    /\ hprev.state = "live"
    /\ \/ hret \in {"err", "-1"} /\ hprev.data # <<>> /\ hcall.fn \in {"reset", "resize", "Sepia"}
       \/ hret \in {"ok", "0"} /\ hcall.fn = "resize" /\ handle.data # hprev.data

----------------------------------------------------------------------------
(* Claims about parse_filter_json, checked under SpecParse *)

\* the variants of the first n operations of a list, in order
RECURSIVE OpTypes(_, _)
OpTypes(ops, n) == IF n = 0 THEN <<>> ELSE Append(OpTypes(ops, n - 1), ops[n].type)

\* the variants the first n entries of a list name, in order, the entries
\* with an unknown name left out
RECURSIVE RecognizedTypes(_, _)
RecognizedTypes(l, n) ==
    IF n = 0 THEN <<>>
    ELSE IF l[n].type = "none" THEN RecognizedTypes(l, n - 1)
    ELSE Append(RecognizedTypes(l, n - 1), l[n].type)

\* the call was made on the bracketed text of a list
BracketedList ==
    /\ jtext # ""
    /\ \E sep \in Separators : jtext = ListText(jentries, sep)

\* C19: parse_filter_json, given a bracketed list of entries, returns without
\* error the operations of the recognized entries in the same relative order
\* as they appear in the text, exactly one operation per recognized entry, and
\* silently drops every entry whose operation name is not recognized.
C19_ParseKeepsRecognized ==
    BracketedList
        => /\ jparsed.ok
           /\ OpTypes(jparsed.ops, Len(jparsed.ops))
                = RecognizedTypes(jentries, Len(jentries))

====
